---- MODULE Spec2Model ----
(***************************************************************************)
(* State management of the glossary publisher:                             *)
(*   scripts/sync/state_manager.py   (StateManager)                        *)
(*   scripts/posting/post_tweet.py   (post_glossary_item)                  *)
(*                                                                         *)
(* A snapshot is the JSON document kept in the gist and in the local file. *)
(* It is modelled as a record                                              *)
(*   posted        : plural category  -> list of ids  (key may be absent)  *)
(*   last_posted   : singular category -> marker or None (key may be       *)
(*                   absent)                                               *)
(*   has_cycle_count, cycle_count : the "cycle_count" dict, category ->    *)
(*                   integer (keys may be absent)                          *)
(*   last_updated  : a timestamp string, "" or absent                      *)
(*                                                                         *)
(* Timestamps are the strings written by                                   *)
(*   datetime.now(timezone.utc).isoformat().replace('+00:00', 'Z')         *)
(* An instant is modelled by its number of clock ticks (microseconds);     *)
(* the code compares the formatted strings, which IsoKey models.           *)
(***************************************************************************)
EXTENDS Integers, Sequences, FiniteSets, TLC

\* ------------------------------------------------------------------------
\* Bounds of the model
\* ------------------------------------------------------------------------
\* ticks per second (1000000 in the program, scaled down)
MicrosPerSec == 2
\* greatest instant that an input snapshot carries
MaxTime == 2
\* greatest cycle count that an input snapshot carries
MaxCycle == 1

\* ------------------------------------------------------------------------
\* Categories (config/settings.py CATEGORY_CONFIG, first two glossary ones)
\* ------------------------------------------------------------------------
\* singular names, in the order of the configuration dict
SingularOrder == <<"spell", "potion">>

Singulars == {SingularOrder[i] : i \in 1..Len(SingularOrder)}

\* f"{category}s", the plural key that get_available_items and
\* mark_as_posted build from the singular name
PluralOf(category) == category \o "s"

\* CATEGORY_CONFIG_PLURAL.keys(), in dict order
CATEGORY_CONFIG_PLURAL == [i \in 1..Len(SingularOrder) |-> PluralOf(SingularOrder[i])]

Cats == {CATEGORY_CONFIG_PLURAL[i] : i \in 1..Len(CATEGORY_CONFIG_PLURAL)}

\* CATEGORY_CONFIG_PLURAL[category]['singular']
SingularOfPlural(category) ==
    CHOOSE s \in Singulars : PluralOf(s) = category

\* ids of catalog items
Ids == {"a", "b"}

\* ------------------------------------------------------------------------
\* Timestamps
\* ------------------------------------------------------------------------
\* dict key absent
NoKey == -2
\* the empty string, the default of state.get('last_updated', '')
EmptyStr == -1

Times == 0..MaxTime

\* Python truthiness of a timestamp value (None and '' are falsy)
Truthy(ts) == ts >= 0

\* state.get(key, '')
OrEmpty(ts) == IF ts = NoKey THEN EmptyStr ELSE ts

\* The formatted string of instant t is "<date>T<hh:mm:ss>[.<micro>]Z":
\* isoformat() leaves the fraction out when the microsecond is 0.  Strings
\* of the same second compare by what follows the seconds: "." sorts before
\* "Z", so the string without fraction is the greatest of its second.
IsoKey(ts) ==
    IF ts < 0 THEN <<-1, 0>>
    ELSE <<ts \div MicrosPerSec,
           IF ts % MicrosPerSec = 0 THEN MicrosPerSec ELSE ts % MicrosPerSec>>

\* Python's <, >= and max on two timestamp strings
StrLess(t1, t2) ==
    \/ IsoKey(t1)[1] < IsoKey(t2)[1]
    \/ IsoKey(t1)[1] = IsoKey(t2)[1] /\ IsoKey(t1)[2] < IsoKey(t2)[2]

StrGeq(t1, t2) == ~StrLess(t1, t2)

StrMax(t1, t2) == IF StrLess(t1, t2) THEN t2 ELSE t1

\* ------------------------------------------------------------------------
\* Snapshots
\* ------------------------------------------------------------------------
\* JSON null / Python None as the value of last_<singular>_posted
None == [id |-> "", timestamp |-> NoKey]

Marker(id, ts) == [id |-> id, timestamp |-> ts]

EmptyMap == [k \in {} |-> 0]

\* dict.get(key, default)
Get(d, k, default) == IF k \in DOMAIN d THEN d[k] ELSE default

Range(s) == {s[i] : i \in DOMAIN s}

\* the elements of set S in the order of the list enum
RECURSIVE FilterList(_, _)
FilterList(enum, S) ==
    IF enum = <<>> THEN <<>>
    ELSE (IF Head(enum) \in S THEN <<Head(enum)>> ELSE <<>>)
         \o FilterList(Tail(enum), S)

\* the orders in which Python may iterate over a set of ids
IterOrders(S) ==
    {q \in [1..Cardinality(S) -> S] : \A i, j \in DOMAIN q : i # j => q[i] # q[j]}

\* StateManager._create_initial_state
_create_initial_state(now) ==
    [posted          |-> [c \in Cats |-> <<>>],
     last_posted     |-> [s \in Singulars |-> None],
     has_cycle_count |-> TRUE,
     cycle_count     |-> [c \in Cats |-> 0],
     last_updated    |-> now]

\* state.get(f"posted_{category}", [])
PostedOf(state, category) == Get(state.posted, category, <<>>)

\* state.get(last_key)
LastOf(state, singular) == Get(state.last_posted, singular, None)

\* state.get('cycle_count', {}).get(category, 0)
CycleOf(state, category) ==
    IF state.has_cycle_count THEN Get(state.cycle_count, category, 0) ELSE 0

\* ------------------------------------------------------------------------
\* StateManager.compare_states
\* ------------------------------------------------------------------------
\* set(state1[posted_key]) - set(state2[posted_key])
OnlyIn(state1, state2, category) ==
    Range(PostedOf(state1, category)) \ Range(PostedOf(state2, category))

\* mutant: only the ids that the second snapshot lacks are looked at
PostedDiffCats_OneSided(state1, state2) ==
    {c \in Cats : OnlyIn(state1, state2, c) # {}}

\* the categories that get an entry in result["posted_diff"]
PostedDiffCats(state1, state2) ==
    {c \in Cats : OnlyIn(state1, state2, c) # {} \/ OnlyIn(state2, state1, c) # {}}

\* the categories that get an entry in result["cycle_diff"]
CycleDiffCats(state1, state2) ==
    {c \in Cats : CycleOf(state1, c) # CycleOf(state2, c)}

\* the timestamp block: both values truthy and different
TimestampDiffers(state1, state2) ==
    /\ Truthy(state1.last_updated)
    /\ Truthy(state2.last_updated)
    /\ state1.last_updated # state2.last_updated

\* mutant: a difference on either side counts as a conflict
CategoryConflict_Either(state1, state2, category) ==
    \/ OnlyIn(state1, state2, category) # {}
    \/ OnlyIn(state2, state1, category) # {}

\* "if only_in_1 and only_in_2": the category sets has_conflict
CategoryConflict(state1, state2, category) ==
    /\ OnlyIn(state1, state2, category) # {}
    /\ OnlyIn(state2, state1, category) # {}

compare_states(state1, state2) ==
    [has_conflict   |-> \E c \in PostedDiffCats(state1, state2) :
                            CategoryConflict(state1, state2, c),
     timestamp_diff |-> IF TimestampDiffers(state1, state2)
                        THEN <<state1.last_updated, state2.last_updated>>
                        ELSE <<>>,
     posted_diff    |-> [c \in PostedDiffCats(state1, state2) |->
                            [only_in_1 |-> OnlyIn(state1, state2, c),
                             only_in_2 |-> OnlyIn(state2, state1, c)]],
     cycle_diff     |-> [c \in CycleDiffCats(state1, state2) |->
                            [state1 |-> CycleOf(state1, c),
                             state2 |-> CycleOf(state2, c)]],
     is_identical   |-> /\ ~TimestampDiffers(state1, state2)
                        /\ PostedDiffCats(state1, state2) = {}
                        /\ CycleDiffCats(state1, state2) = {}]

\* ------------------------------------------------------------------------
\* StateManager.merge_states
\* ------------------------------------------------------------------------
\* one marker of the merged snapshot: the newer string wins, the first
\* argument on a tie
MergeMarker(last1, last2) ==
    IF last1 # None /\ last2 # None
    THEN (IF StrGeq(OrEmpty(last1.timestamp), OrEmpty(last2.timestamp))
          THEN last1 ELSE last2)
    ELSE IF last1 # None THEN last1
    ELSE last2

\* The loop over the markers assigns the local names ts1 and ts2, which
\* also hold the two last_updated values: <<ts1, ts2>> after the loop has
\* run over categories i..n, having been <<ts1, ts2>> before.
RECURSIVE TsAfterMarkerLoop(_, _, _, _, _)
TsAfterMarkerLoop(state1, state2, i, ts1, ts2) ==
    IF i > Len(SingularOrder) THEN <<ts1, ts2>>
    ELSE LET last1 == LastOf(state1, SingularOrder[i])
             last2 == LastOf(state2, SingularOrder[i])
         IN  IF last1 # None /\ last2 # None
             THEN TsAfterMarkerLoop(state1, state2, i + 1,
                                    OrEmpty(last1.timestamp), OrEmpty(last2.timestamp))
             ELSE TsAfterMarkerLoop(state1, state2, i + 1, ts1, ts2)

\* merged['last_updated'] with prefer_newer, from the final ts1 and ts2
MergedLastUpdated(ts1, ts2) ==
    IF Truthy(ts1) /\ Truthy(ts2) THEN StrMax(ts1, ts2)
    ELSE IF Truthy(ts1) THEN ts1 ELSE ts2

\* mutant: the ids of the first snapshot only
MergedPosted_FirstOnly(state1, state2, category, enum) ==
    FilterList(enum, Range(PostedOf(state1, category)))

\* merged[posted_key] = list(set1 | set2); enum is the order in which the
\* list enumerates the ids of the union
MergedPosted(state1, state2, category, enum) ==
    FilterList(enum, Range(PostedOf(state1, category))
                     \cup Range(PostedOf(state2, category)))

\* mutant: the smaller count
MergedCycle_Min(state1, state2, category) ==
    IF CycleOf(state1, category) >= CycleOf(state2, category)
    THEN CycleOf(state2, category) ELSE CycleOf(state1, category)

\* merged['cycle_count'][category] = max(count1, count2)
MergedCycle(state1, state2, category) ==
    IF CycleOf(state1, category) >= CycleOf(state2, category)
    THEN CycleOf(state1, category) ELSE CycleOf(state2, category)

\* now is the clock read by _create_initial_state and by the last branch
merge_states(state1, state2, prefer_newer, now, enum) ==
    LET ts == TsAfterMarkerLoop(state1, state2, 1,
                                OrEmpty(state1.last_updated), OrEmpty(state2.last_updated))
    IN  [posted          |-> [c \in Cats |-> MergedPosted(state1, state2, c, enum)],
         last_posted     |-> [s \in Singulars |->
                                 MergeMarker(LastOf(state1, s), LastOf(state2, s))],
         has_cycle_count |-> TRUE,
         cycle_count     |-> [c \in Cats |-> MergedCycle(state1, state2, c)],
         last_updated    |-> IF prefer_newer THEN MergedLastUpdated(ts[1], ts[2]) ELSE now]

\* ------------------------------------------------------------------------
\* Loading and saving (the gist document and the local file hold <<doc>>,
\* or <<>> when they do not exist)
\* ------------------------------------------------------------------------
\* d[k] = v on a dict that may lack the key
SetKey(d, k, v) == [x \in DOMAIN d \cup {k} |-> IF x = k THEN v ELSE d[x]]

\* outcomes of one _gist_api_call_with_retry other than a response
RemoteFailures ==
    {"auth", "ratelimit", "server", "network", "timeout", "generic", "unexpected"}

\* the outcomes that a call on the document can have: a 404 when there is
\* no document, a response when there is one, a failure at any time
Outcomes(doc) == (IF doc = <<>> THEN {"notfound"} ELSE {"ok"}) \cup RemoteFailures

\* mutant: the cycle counts are set to 0 whether they were there or not
_migrate_state_Resets(state) ==
    [state EXCEPT
       !.posted = [c \in Cats |-> Get(state.posted, c, <<>>)],
       !.last_posted = [s \in Singulars |-> Get(state.last_posted, s, None)],
       !.has_cycle_count = TRUE,
       !.cycle_count = [c \in Cats |-> 0]]

\* StateManager._migrate_state
_migrate_state(state) ==
    [state EXCEPT
       !.posted = [c \in Cats |-> Get(state.posted, c, <<>>)],
       !.last_posted = [s \in Singulars |-> Get(state.last_posted, s, None)],
       !.has_cycle_count = TRUE,
       !.cycle_count = [c \in Cats |-> CycleOf(state, c)]]

\* StateManager._load_local_state
_load_local_state(localDoc, now) ==
    IF localDoc # <<>> THEN _migrate_state(localDoc[1])
    ELSE _create_initial_state(now)

\* mutant: a 404 falls back to the local file like the failures
_load_state_NotFoundToLocal(hasGist, outcome, gistDoc, localDoc, now) ==
    IF ~hasGist THEN _load_local_state(localDoc, now)
    ELSE IF outcome = "ok" THEN _migrate_state(gistDoc[1])
    ELSE _load_local_state(localDoc, now)

\* StateManager._load_state; hasGist: gist id and token are both set,
\* outcome: how the GET ended
_load_state(hasGist, outcome, gistDoc, localDoc, now) ==
    IF ~hasGist THEN _load_local_state(localDoc, now)
    ELSE IF outcome = "ok" THEN _migrate_state(gistDoc[1])
    ELSE IF outcome = "notfound" THEN _create_initial_state(now)
    ELSE _load_local_state(localDoc, now)

\* mutant: a failed PATCH leaves the local file as it was
_save_state_NoFallback(state, hasGist, outcome, gistDoc, localDoc, now) ==
    LET stamped == [state EXCEPT !.last_updated = now]
    IN  IF hasGist /\ outcome = "ok"
        THEN [state |-> stamped, gist |-> <<stamped>>, localFile |-> localDoc]
        ELSE IF hasGist
        THEN [state |-> stamped, gist |-> gistDoc, localFile |-> localDoc]
        ELSE [state |-> stamped, gist |-> gistDoc, localFile |-> <<stamped>>]

\* StateManager._save_state: the stamped state and where it is written
_save_state(state, hasGist, outcome, gistDoc, localDoc, now) ==
    LET stamped == [state EXCEPT !.last_updated = now]
    IN  IF hasGist /\ outcome = "ok"
        THEN [state |-> stamped, gist |-> <<stamped>>, localFile |-> localDoc]
        ELSE [state |-> stamped, gist |-> gistDoc, localFile |-> <<stamped>>]

\* ------------------------------------------------------------------------
\* Availability selector
\* ------------------------------------------------------------------------
\* all_ids - posted_ids
AvailableIds(state, category, all_items) ==
    Range(all_items) \ Range(PostedOf(state, PluralOf(category)))

\* mutant: the reset counts the cycle but keeps the posted list
get_available_items_KeepsPosted(state, category, all_items) ==
    IF AvailableIds(state, category, all_items) = {}
    THEN [state |-> [state EXCEPT !.cycle_count[PluralOf(category)] = @ + 1],
          ret   |-> all_items]
    ELSE [state |-> state,
          ret   |-> SelectSeq(all_items,
                              LAMBDA id : id \in AvailableIds(state, category, all_items))]

\* StateManager.get_available_items: the state afterwards and the list
\* returned
get_available_items(state, category, all_items) ==
    IF AvailableIds(state, category, all_items) = {}
    THEN [state |-> [state EXCEPT
                       !.posted = SetKey(@, PluralOf(category), <<>>),
                       !.cycle_count[PluralOf(category)] = @ + 1],
          ret   |-> all_items]
    ELSE [state |-> state,
          ret   |-> SelectSeq(all_items,
                              LAMBDA id : id \in AvailableIds(state, category, all_items))]

\* mutant: the id is appended without the membership test
mark_as_posted_AlwaysAppends(state, category, item_id, ts) ==
    [state EXCEPT
       !.posted = SetKey(@, PluralOf(category),
                         Append(PostedOf(state, PluralOf(category)), item_id)),
       !.last_posted = SetKey(@, category, Marker(item_id, ts))]

\* StateManager.mark_as_posted up to the call of _save_state; ts is the
\* clock read for the marker
mark_as_posted(state, category, item_id, ts) ==
    LET posted_key == PluralOf(category)
        list == PostedOf(state, posted_key)
    IN  [state EXCEPT
           !.posted = SetKey(@, posted_key,
                             IF item_id \in Range(list) THEN list
                             ELSE Append(list, item_id)),
           !.last_posted = SetKey(@, category, Marker(item_id, ts))]

\* mutant: the choice is made among all ids, not among the available ones
RandomChoices_AnyId(available) ==
    IF available = <<>> THEN {<<>>} ELSE {<<id>> : id \in Ids}

\* StateManager.get_random_available_item: what random.choice may return,
\* <<>> standing for None
RandomChoices(available) ==
    IF available = <<>> THEN {<<>>} ELSE {<<id>> : id \in Range(available)}

\* ------------------------------------------------------------------------
\* Input snapshots of compare_states and merge_states
\* ------------------------------------------------------------------------
\* the order of the items in a catalog file
IdOrder == <<"a", "b">>

\* values of last_updated in a stored document: an instant, or no key
TsOpt == Times \cup {NoKey}

\* dicts with keys among K and values in V
PartialFns(K, V) == UNION {[D -> V] : D \in SUBSET K}

\* snapshots that differ from a fresh one in their posted lists
PostedSnaps ==
    {[_create_initial_state(lu) EXCEPT
         !.posted = [c \in Cats |-> FilterList(IdOrder, p[c])]] :
       p \in [Cats -> SUBSET Ids], lu \in TsOpt}

\* snapshots that differ from a fresh one in their cycle counts; older
\* documents lack some counts or the whole dict
CycleSnaps ==
    {[_create_initial_state(lu) EXCEPT !.cycle_count = cc] :
       cc \in PartialFns(Cats, 0..MaxCycle), lu \in TsOpt}
    \cup {[_create_initial_state(lu) EXCEPT
              !.has_cycle_count = FALSE, !.cycle_count = EmptyMap] : lu \in TsOpt}

\* snapshots that carry markers: the marked id is in the posted list
MarkerOpt == {None} \cup {Marker(id, ts) : id \in Ids, ts \in Times}

TimeSnaps ==
    {[_create_initial_state(lu) EXCEPT
         !.last_posted = m,
         !.posted = [c \in Cats |->
                       IF m[SingularOfPlural(c)] = None THEN <<>>
                       ELSE <<m[SingularOfPlural(c)].id>>]] :
       m \in [Singulars -> MarkerOpt], lu \in TsOpt}

Snapshots == PostedSnaps \cup CycleSnaps \cup TimeSnaps

\* ------------------------------------------------------------------------
\* Inputs of the selector
\* ------------------------------------------------------------------------
\* number of calls made on one StateManager
MaxCalls == 3

\* data['data'] of each category's catalog file, by id; the second
\* catalog has no items
Catalog == [s \in Singulars |-> IF s = SingularOrder[1] THEN IdOrder ELSE <<>>]

\* a document written before the potions category and cycle_count existed
LegacyDoc ==
    [posted          |-> [c \in {"spells"} |-> <<"a">>],
     last_posted     |-> [s \in {"spell"} |-> Marker("a", 0)],
     has_cycle_count |-> FALSE,
     cycle_count     |-> EmptyMap,
     last_updated    |-> 0]

\* what the gist or the local file holds when a StateManager is built
StoredDocs ==
    { <<>>,
      <<_create_initial_state(0)>>,
      <<LegacyDoc>>,
      <<[_create_initial_state(0) EXCEPT
           !.posted["spells"] = <<"b", "a">>,
           !.last_posted["spell"] = Marker("a", 0)]>> }

\* ------------------------------------------------------------------------
\* State
\* ------------------------------------------------------------------------
VARIABLES
    stateA,      \* first argument of compare_states / merge_states
    stateB,      \* second argument
    merged,      \* <<result of merge_states>>, <<>> before the call
    comparison,  \* <<result of compare_states>>, <<>> before the call
    hasGist,     \* gist id and token are configured
    gist,        \* <<content of the gist file>>, <<>> if there is none
    localFile,   \* <<content of the local state file>>, <<>> if there is none
    now,         \* the clock
    state,       \* self.state of the StateManager
    call,        \* the last call, its arguments, and whether the id was posted before
    ret,         \* what the last call returned
    calls,       \* number of calls made so far
    published,   \* per category, the ids of the tweets posted, oldest first
    faulted,     \* some call on the gist has failed
    backupFile,  \* <<content of the backup of the local file>>, <<>> if none
    req,         \* the last operation on the stores, with how its calls ended
    client,      \* one call of _gist_api_call_with_retry: its locals and its log
    validation,  \* the run of the validator: its environment, arguments and outcome
    procs        \* the processes that share the gist, each with its own files

vars == <<stateA, stateB, merged, comparison, hasGist, gist, localFile, now,
          state, call, ret, calls, published, faulted, backupFile, req,
          client, validation, procs>>

mergeVars == <<stateA, stateB, merged, comparison>>

storeVars == <<hasGist, gist, localFile, now>>

managerVars == <<state, call, ret, calls>>

NoCall == [op |-> "none", category |-> "", items |-> <<>>, id |-> "", already |-> FALSE]

\* the variables that a specification does not use
IdleMerge ==
    /\ stateA = _create_initial_state(0)
    /\ stateB = _create_initial_state(0)
    /\ merged = <<>>
    /\ comparison = <<>>

IdleStore ==
    /\ hasGist = FALSE
    /\ gist = <<>>
    /\ localFile = <<>>
    /\ now = 0

IdleManager ==
    /\ state = _create_initial_state(0)
    /\ call = NoCall
    /\ ret = <<>>
    /\ calls = 0

IdlePublisher ==
    /\ published = [s \in Singulars |-> <<>>]
    /\ faulted = FALSE

pubVars == <<published, faulted>>

syncVars == <<backupFile, req>>

\* no operation on the stores yet: op is its name, force and dry_run its
\* arguments, get and patch how its GET and its PATCH ended, get2 how the
\* GET of the operation it hands over to ended ("none" when the call was
\* not made)
NoReq == [op |-> "none", force |-> FALSE, dry_run |-> FALSE,
          get |-> "none", get2 |-> "none", patch |-> "none"]

IdleSync ==
    /\ backupFile = <<>>
    /\ req = NoReq

auxVars == <<client, validation, procs>>

\* no call of the retrying client yet
NoClient ==
    [attempt |-> 0, retry_delay |-> 0, outcomes |-> <<>>, sleeps |-> <<>>, result |-> "none"]

IdleClient == client = NoClient

\* no run of the validator yet: op names the run, data_files holds for
\* each category <<the ids of its catalog file>> or <<>> without the file,
\* fix and category are the arguments (category <<>> when not given),
\* minute and leap_day are read from the wall clock, get and patch tell how
\* the GET of the sync check and the PATCH of the save ended, before is the
\* state that the run started from, raised the exception that ended the run
\* ("" when it returned) and result <<the report returned>>
NoValidation ==
    [op |-> "none", data_files |-> [c \in Cats |-> <<>>], fix |-> FALSE, category |-> <<>>,
     minute |-> 0, leap_day |-> FALSE, get |-> "none", patch |-> "none",
     before |-> _create_initial_state(0), raised |-> "", result |-> <<>>]

IdleValidator == validation = NoValidation

\* the processes that run against one gist
Procs == {1, 2}

\* a process that has not started: pc is where it stands, state the
\* self.state of its StateManager, seen what its _load_gist_state returned,
\* localFile and backupFile its own files, get and patch how its GET and
\* its PATCH ended, id the item it marks
NoProc ==
    [pc |-> "idle", state |-> _create_initial_state(0), seen |-> <<>>,
     localFile |-> <<>>, backupFile |-> <<>>, get |-> "none", patch |-> "none",
     id |-> "", ret |-> <<>>]

IdleProcs == procs = [p \in Procs |-> NoProc]

\* ------------------------------------------------------------------------
\* SpecMerge: compare_states and merge_states applied to two snapshots
\* ------------------------------------------------------------------------
InitMerge ==
    /\ stateA \in Snapshots
    /\ stateB \in Snapshots
    /\ merged = <<>>
    /\ comparison = <<>>
    /\ IdleStore
    /\ IdleManager
    /\ IdlePublisher
    /\ IdleSync
    /\ IdleClient
    /\ IdleValidator
    /\ IdleProcs

\* merged_state = self.merge_states(gist_state, local_state, prefer_newer=True)
MergeStates ==
    /\ merged = <<>>
    /\ comparison = <<>>
    /\ \E enum \in IterOrders(Ids) :
          merged' = <<merge_states(stateA, stateB, TRUE, now, enum)>>
    /\ UNCHANGED <<auxVars, syncVars, stateA, stateB, comparison, storeVars, managerVars, pubVars>>

\* comparison = self.compare_states(gist_state, local_state)
CompareStates ==
    /\ merged = <<>>
    /\ comparison = <<>>
    /\ comparison' = <<compare_states(stateA, stateB)>>
    /\ UNCHANGED <<auxVars, syncVars, stateA, stateB, merged, storeVars, managerVars, pubVars>>

NextMerge == MergeStates \/ CompareStates

SpecMerge == InitMerge /\ [][NextMerge]_vars

\* ------------------------------------------------------------------------
\* Spec: the calls of the selector on one StateManager
\* ------------------------------------------------------------------------
\* self.state = self._load_state() on what the gist and the file hold
Init ==
    /\ IdleMerge
    /\ hasGist \in BOOLEAN
    /\ gist \in StoredDocs
    /\ localFile \in StoredDocs
    /\ hasGist = (localFile = <<>>)
    /\ hasGist = FALSE => gist = <<>>
    /\ now = 1
    /\ \E outcome \in Outcomes(gist) :
          state = _load_state(hasGist, outcome, gist, localFile, now)
    /\ call = NoCall
    /\ ret = <<>>
    /\ calls = 0
    /\ IdlePublisher
    /\ IdleSync
    /\ IdleClient
    /\ IdleValidator
    /\ IdleProcs

GetAvailableItems ==
    \E category \in Singulars :
     \E all_items \in {Catalog[category]} :
       /\ calls < MaxCalls
       /\ calls' = calls + 1
       /\ state' = get_available_items(state, category, all_items).state
       /\ ret' = get_available_items(state, category, all_items).ret
       /\ call' = [op |-> "get_available_items", category |-> category,
                   items |-> all_items, id |-> "", already |-> FALSE]
       /\ UNCHANGED <<auxVars, syncVars, mergeVars, storeVars, pubVars>>

GetRandomAvailableItem ==
    \E category \in Singulars :
     \E all_items \in {Catalog[category]} :
       /\ calls < MaxCalls
       /\ calls' = calls + 1
       /\ state' = get_available_items(state, category, all_items).state
       /\ ret' \in RandomChoices(get_available_items(state, category, all_items).ret)
       /\ call' = [op |-> "get_random_available_item", category |-> category,
                   items |-> all_items, id |-> "", already |-> FALSE]
       /\ UNCHANGED <<auxVars, syncVars, mergeVars, storeVars, pubVars>>

\* mark_as_posted with its _save_state: t1 and t2 are the two clock reads,
\* outcome is how the PATCH ended
MarkAsPosted ==
    \E category \in Singulars, item_id \in Ids,
       t1 \in {now}, t2 \in now..(now + 1), outcome \in Outcomes(gist) :
       /\ calls < MaxCalls
       /\ calls' = calls + 1
       /\ LET saved == _save_state(mark_as_posted(state, category, item_id, t1),
                                   hasGist, outcome, gist, localFile, t2)
          IN  /\ state' = saved.state
              /\ gist' = saved.gist
              /\ localFile' = saved.localFile
       /\ now' = t2
       /\ ret' = <<>>
       /\ call' = [op |-> "mark_as_posted", category |-> category,
                   items |-> <<>>, id |-> item_id,
                   already |-> item_id \in Range(PostedOf(state, PluralOf(category)))]
       /\ UNCHANGED <<auxVars, syncVars, mergeVars, hasGist, pubVars>>

Next == GetAvailableItems \/ GetRandomAvailableItem \/ MarkAsPosted

Spec == Init /\ [][Next]_vars

\* ------------------------------------------------------------------------
\* SpecPub: runs of post_glossary_item, one after the other
\* ------------------------------------------------------------------------
\* number of runs of post_glossary_item
MaxRuns == 4

\* the gist was made by create_gist, or there is no gist and the local
\* file holds the state
InitPub ==
    /\ IdleMerge
    /\ IdleManager
    /\ IdlePublisher
    /\ IdleSync
    /\ IdleClient
    /\ IdleValidator
    /\ IdleProcs
    /\ now = 1
    /\ \/ hasGist = TRUE /\ gist = <<_create_initial_state(0)>> /\ localFile = <<>>
       \/ hasGist = FALSE /\ gist = <<>>
          /\ localFile \in {<<>>, <<_create_initial_state(0)>>}

\* How a call on the gist may end in a run.  Every failure takes the same
\* branch of _load_state and of _save_state (Spec draws all of them): a
\* timeout stands for them here.  Without gist settings no call is made.
RunOutcomes(doc) ==
    IF ~hasGist THEN {"unused"}
    ELSE (IF doc = <<>> THEN {"notfound"} ELSE {"ok"}) \cup {"timeout"}

\* post_glossary_item(category, None, dry_run, True) up to the choice of
\* the entry: the state of the first StateManager after the choice, and
\* the entries that may be chosen; o1 is how its GET ended
PickEntry(category, o1) ==
    LET sm == _load_state(hasGist, o1, gist, localFile, now)
        avail == get_available_items(sm, category, Catalog[category])
    IN  RandomChoices(avail.ret)

\* the run ends without a tweet: no entry, or post_tweet returned None
PostNothing ==
    \E category \in Singulars, o1 \in RunOutcomes(gist), tweeted \in BOOLEAN :
       /\ calls < MaxRuns
       /\ calls' = calls + 1
       /\ \E entry \in PickEntry(category, o1) :
             /\ entry = <<>> \/ ~tweeted
             /\ call' = [op |-> "post_glossary_item", category |-> category,
                         items |-> Catalog[category],
                         id |-> IF entry = <<>> THEN "" ELSE entry[1],
                         already |-> FALSE]
       /\ ret' = <<"False">>
       /\ faulted' = (faulted \/ (hasGist /\ o1 \in RemoteFailures))
       /\ UNCHANGED <<auxVars, syncVars, mergeVars, storeVars, state, published>>

\* the run with dry_run: the text is printed, nothing is posted or saved
PostDryRun ==
    \E category \in Singulars, o1 \in RunOutcomes(gist) :
       /\ calls < MaxRuns
       /\ calls' = calls + 1
       /\ \E entry \in PickEntry(category, o1) :
             /\ entry # <<>>
             /\ call' = [op |-> "post_glossary_item", category |-> category,
                         items |-> Catalog[category], id |-> entry[1],
                         already |-> FALSE]
       /\ ret' = <<"True">>
       /\ faulted' = (faulted \/ (hasGist /\ o1 \in RemoteFailures))
       /\ UNCHANGED <<auxVars, syncVars, mergeVars, storeVars, state, published>>

\* the run that posts the tweet and marks the entry on a second
\* StateManager; o2 is how the GET of that one ended, o3 how the PATCH of
\* _save_state ended, t1 and t2 are the clock reads of mark_as_posted and
\* of _save_state
PostAndMark ==
    \E category \in Singulars, o1 \in RunOutcomes(gist), o2 \in RunOutcomes(gist),
       o3 \in RunOutcomes(gist), t1 \in {now}, t2 \in now..(now + 1) :
       /\ calls < MaxRuns
       /\ calls' = calls + 1
       /\ \E entry \in PickEntry(category, o1) :
             /\ entry # <<>>
             /\ LET sm2 == _load_state(hasGist, o2, gist, localFile, now)
                    saved == _save_state(mark_as_posted(sm2, category, entry[1], t1),
                                         hasGist, o3, gist, localFile, t2)
                IN  /\ gist' = saved.gist
                    /\ localFile' = saved.localFile
             /\ published' = [published EXCEPT ![category] = Append(@, entry[1])]
             /\ call' = [op |-> "post_glossary_item", category |-> category,
                         items |-> Catalog[category], id |-> entry[1],
                         already |-> FALSE]
       /\ ret' = <<"True">>
       /\ now' = t2
       /\ faulted' = (faulted \/ (hasGist /\ {o1, o2, o3} \cap RemoteFailures # {}))
       /\ UNCHANGED <<auxVars, syncVars, mergeVars, hasGist, state>>

NextPub == PostNothing \/ PostDryRun \/ PostAndMark

SpecPub == InitPub /\ [][NextPub]_vars

\* ------------------------------------------------------------------------
\* Synchronisation of the local file and the gist
\* ------------------------------------------------------------------------
\* the JSON object {} as a stored document
EmptyDoc ==
    [posted          |-> EmptyMap,
     last_posted     |-> EmptyMap,
     has_cycle_count |-> FALSE,
     cycle_count     |-> EmptyMap,
     last_updated    |-> NoKey]

\* Python truthiness of an Optional[Dict]: None and {} are falsy
DictTruthy(opt) == opt # <<>> /\ opt[1] # EmptyDoc

\* StateManager._load_gist_state: <<the parsed document>>, <<>> for None;
\* get is how the GET ended
_load_gist_state(hasG, get, gistDoc) ==
    IF ~hasG THEN <<>>
    ELSE IF get = "ok" THEN gistDoc
    ELSE <<>>

\* StateManager._backup_local_state: the backup file afterwards; copied
\* says whether shutil.copy2 went through
_backup_local_state(localDoc, backupDoc, copied) ==
    IF localDoc = <<>> THEN backupDoc
    ELSE IF copied THEN localDoc
    ELSE backupDoc

\* what a sync operation returns and leaves in the stores; got and patched
\* say whether it made its GET and its PATCH
SyncResult(r, gistDoc, localDoc, backupDoc, got, patched) ==
    [ret |-> r, gist |-> gistDoc, localFile |-> localDoc, backupFile |-> backupDoc,
     got |-> got, patched |-> patched]

\* mutant: a conflict never stops the operation
ConflictGuard_Off(cmp, force) == FALSE

\* "if comparison["has_conflict"] and not force"
ConflictGuard(cmp, force) == cmp.has_conflict /\ ~force

\* "if gist_ts < local_ts and not force", source and destination
\* timestamps being compared as strings
StaleGuard(source_ts, destination_ts, force) ==
    StrLess(source_ts, destination_ts) /\ ~force

\* mutant: the run goes on to the writes
DryRunStops_Never(dry_run) == FALSE

\* "if dry_run: ... return True", placed before the backup and the writes
DryRunStops(dry_run) == dry_run

\* mutant: the pull stamps the document that it writes
sync_from_gist_Restamps(force, dry_run, hasG, get, gistDoc, localDoc, backupDoc, copied, clock) ==
    LET gist_state == _load_gist_state(hasG, get, gistDoc)
        same == SyncResult(TRUE, gistDoc, localDoc, backupDoc, hasG, FALSE)
        fail == SyncResult(FALSE, gistDoc, localDoc, backupDoc, hasG, FALSE)
    IN  IF ~DictTruthy(gist_state) THEN fail
        ELSE
          LET local_state == IF localDoc # <<>> THEN localDoc[1]
                             ELSE _create_initial_state(clock)
              cmp == compare_states(gist_state[1], local_state)
              gist_ts == OrEmpty(gist_state[1].last_updated)
              local_ts == OrEmpty(local_state.last_updated)
          IN  IF cmp.is_identical THEN same
              ELSE IF ConflictGuard(cmp, force) THEN fail
              ELSE IF StaleGuard(gist_ts, local_ts, force) THEN fail
              ELSE IF DryRunStops(dry_run) THEN same
              ELSE SyncResult(TRUE, gistDoc, <<[gist_state[1] EXCEPT !.last_updated = clock]>>,
                              _backup_local_state(localDoc, backupDoc, copied),
                              hasG, FALSE)

\* StateManager.sync_from_gist
sync_from_gist(force, dry_run, hasG, get, gistDoc, localDoc, backupDoc, copied, clock) ==
    LET gist_state == _load_gist_state(hasG, get, gistDoc)
        same == SyncResult(TRUE, gistDoc, localDoc, backupDoc, hasG, FALSE)
        fail == SyncResult(FALSE, gistDoc, localDoc, backupDoc, hasG, FALSE)
    IN  IF ~DictTruthy(gist_state) THEN fail
        ELSE
          LET local_state == IF localDoc # <<>> THEN localDoc[1]
                             ELSE _create_initial_state(clock)
              cmp == compare_states(gist_state[1], local_state)
              gist_ts == OrEmpty(gist_state[1].last_updated)
              local_ts == OrEmpty(local_state.last_updated)
          IN  IF cmp.is_identical THEN same
              ELSE IF ConflictGuard(cmp, force) THEN fail
              ELSE IF StaleGuard(gist_ts, local_ts, force) THEN fail
              ELSE IF DryRunStops(dry_run) THEN same
              ELSE SyncResult(TRUE, gistDoc, gist_state,
                              _backup_local_state(localDoc, backupDoc, copied),
                              hasG, FALSE)

\* mutant: the push goes on when the snapshots are identical
sync_to_gist_SkipsIdentical(force, dry_run, hasG, get, patch, gistDoc, localDoc, backupDoc, clock) ==
    IF ~hasG THEN SyncResult(FALSE, gistDoc, localDoc, backupDoc, FALSE, FALSE)
    ELSE IF localDoc = <<>>
         THEN SyncResult(FALSE, gistDoc, localDoc, backupDoc, FALSE, FALSE)
    ELSE
      LET local_state == localDoc[1]
          loaded == _load_gist_state(hasG, get, gistDoc)
          gist_state == IF DictTruthy(loaded) THEN loaded[1]
                        ELSE _create_initial_state(clock)
          cmp == compare_states(local_state, gist_state)
          local_ts == OrEmpty(local_state.last_updated)
          gist_ts == OrEmpty(gist_state.last_updated)
          same == SyncResult(TRUE, gistDoc, localDoc, backupDoc, TRUE, FALSE)
          fail == SyncResult(FALSE, gistDoc, localDoc, backupDoc, TRUE, FALSE)
      IN  IF ConflictGuard(cmp, force) THEN fail
          ELSE IF StaleGuard(local_ts, gist_ts, force) THEN fail
          ELSE IF DryRunStops(dry_run) THEN same
          ELSE IF patch = "ok"
               THEN SyncResult(TRUE, <<local_state>>, localDoc, backupDoc, TRUE, TRUE)
          ELSE SyncResult(FALSE, gistDoc, localDoc, backupDoc, TRUE, TRUE)

\* StateManager.sync_to_gist; patch is how the PATCH ended
sync_to_gist(force, dry_run, hasG, get, patch, gistDoc, localDoc, backupDoc, clock) ==
    IF ~hasG THEN SyncResult(FALSE, gistDoc, localDoc, backupDoc, FALSE, FALSE)
    ELSE IF localDoc = <<>>
         THEN SyncResult(FALSE, gistDoc, localDoc, backupDoc, FALSE, FALSE)
    ELSE
      LET local_state == localDoc[1]
          loaded == _load_gist_state(hasG, get, gistDoc)
          gist_state == IF DictTruthy(loaded) THEN loaded[1]
                        ELSE _create_initial_state(clock)
          cmp == compare_states(local_state, gist_state)
          local_ts == OrEmpty(local_state.last_updated)
          gist_ts == OrEmpty(gist_state.last_updated)
          same == SyncResult(TRUE, gistDoc, localDoc, backupDoc, TRUE, FALSE)
          fail == SyncResult(FALSE, gistDoc, localDoc, backupDoc, TRUE, FALSE)
      IN  IF cmp.is_identical THEN same
          ELSE IF ConflictGuard(cmp, force) THEN fail
          ELSE IF StaleGuard(local_ts, gist_ts, force) THEN fail
          ELSE IF DryRunStops(dry_run) THEN same
          ELSE IF patch = "ok"
               THEN SyncResult(TRUE, <<local_state>>, localDoc, backupDoc, TRUE, TRUE)
          ELSE SyncResult(FALSE, gistDoc, localDoc, backupDoc, TRUE, TRUE)

\* mutant: the local file is written only once the gist has taken the
\* merged snapshot
AutoWrite_RemoteFirst(merged_state, patch, gistDoc, localDoc, backed) ==
    IF patch = "ok"
    THEN SyncResult(TRUE, <<merged_state>>, <<merged_state>>, backed, TRUE, TRUE)
    ELSE SyncResult(FALSE, gistDoc, localDoc, backed, TRUE, TRUE)

\* mutant: the merged snapshot goes to the gist only, the local file stays
AutoWrite_KeepsLocal(merged_state, patch, gistDoc, localDoc, backed) ==
    IF patch = "ok"
    THEN SyncResult(TRUE, <<merged_state>>, localDoc, backed, TRUE, TRUE)
    ELSE SyncResult(FALSE, gistDoc, localDoc, backed, TRUE, TRUE)

\* the writes of sync_auto: the local file takes the merged snapshot, then
\* the PATCH is made; backed is the backup file after _backup_local_state
AutoWrite(merged_state, patch, gistDoc, localDoc, backed) ==
    IF patch = "ok"
    THEN SyncResult(TRUE, <<merged_state>>, <<merged_state>>, backed, TRUE, TRUE)
    ELSE SyncResult(FALSE, gistDoc, <<merged_state>>, backed, TRUE, TRUE)

\* mutant: with neither side there, a fresh state is written to the local file
sync_auto_CreatesFresh(dry_run, hasG, get, get2, patch, gistDoc, localDoc, backupDoc, copied, clock, enum) ==
    LET gist_state == _load_gist_state(hasG, get, gistDoc)
        local_state == localDoc
    IN  IF DictTruthy(gist_state) /\ ~DictTruthy(local_state)
        THEN LET r == sync_from_gist(FALSE, dry_run, hasG, get2, gistDoc, localDoc,
                                     backupDoc, copied, clock)
             IN  [res |-> [r EXCEPT !.got = hasG], got2 |-> r.got]
        ELSE IF ~DictTruthy(gist_state) /\ DictTruthy(local_state)
        THEN LET r == sync_to_gist(FALSE, dry_run, hasG, get2, patch, gistDoc,
                                   localDoc, backupDoc, clock)
             IN  [res |-> [r EXCEPT !.got = hasG], got2 |-> r.got]
        ELSE IF ~DictTruthy(gist_state) /\ ~DictTruthy(local_state)
        THEN [res |-> SyncResult(TRUE, gistDoc, <<_create_initial_state(clock)>>, backupDoc,
                                 hasG, FALSE),
              got2 |-> FALSE]
        ELSE
          LET cmp == compare_states(gist_state[1], local_state[1])
              merged_state == merge_states(gist_state[1], local_state[1], TRUE,
                                           clock, enum)
              backed == _backup_local_state(localDoc, backupDoc, copied)
          IN  IF cmp.is_identical
              THEN [res |-> SyncResult(TRUE, gistDoc, localDoc, backupDoc, hasG, FALSE),
                    got2 |-> FALSE]
              ELSE IF DryRunStops(dry_run)
              THEN [res |-> SyncResult(TRUE, gistDoc, localDoc, backupDoc, hasG, FALSE),
                    got2 |-> FALSE]
              ELSE [res |-> AutoWrite(merged_state, patch, gistDoc, localDoc, backed),
                    got2 |-> FALSE]

\* StateManager.sync_auto: res is what it returns and leaves in the
\* stores, got2 whether the operation it handed over to made its GET;
\* get2 is how that GET ended, enum the order in which merge_states lists
\* the ids of a union
sync_auto(dry_run, hasG, get, get2, patch, gistDoc, localDoc, backupDoc, copied, clock, enum) ==
    LET gist_state == _load_gist_state(hasG, get, gistDoc)
        local_state == localDoc
    IN  IF DictTruthy(gist_state) /\ ~DictTruthy(local_state)
        THEN LET r == sync_from_gist(FALSE, dry_run, hasG, get2, gistDoc, localDoc,
                                     backupDoc, copied, clock)
             IN  [res |-> [r EXCEPT !.got = hasG], got2 |-> r.got]
        ELSE IF ~DictTruthy(gist_state) /\ DictTruthy(local_state)
        THEN LET r == sync_to_gist(FALSE, dry_run, hasG, get2, patch, gistDoc,
                                   localDoc, backupDoc, clock)
             IN  [res |-> [r EXCEPT !.got = hasG], got2 |-> r.got]
        ELSE IF ~DictTruthy(gist_state) /\ ~DictTruthy(local_state)
        THEN [res |-> SyncResult(FALSE, gistDoc, localDoc, backupDoc, hasG, FALSE),
              got2 |-> FALSE]
        ELSE
          LET cmp == compare_states(gist_state[1], local_state[1])
              merged_state == merge_states(gist_state[1], local_state[1], TRUE,
                                           clock, enum)
              backed == _backup_local_state(localDoc, backupDoc, copied)
          IN  IF cmp.is_identical
              THEN [res |-> SyncResult(TRUE, gistDoc, localDoc, backupDoc, hasG, FALSE),
                    got2 |-> FALSE]
              ELSE IF DryRunStops(dry_run)
              THEN [res |-> SyncResult(TRUE, gistDoc, localDoc, backupDoc, hasG, FALSE),
                    got2 |-> FALSE]
              ELSE [res |-> AutoWrite(merged_state, patch, gistDoc, localDoc, backed),
                    got2 |-> FALSE]

\* ------------------------------------------------------------------------
\* SpecStore: one operation on the local file and the gist
\* ------------------------------------------------------------------------
\* the documents that the gist and the local file may hold: posted lists,
\* cycle counts and markers of the first category vary
SyncSnaps ==
    {[_create_initial_state(lu) EXCEPT !.posted["spells"] = FilterList(IdOrder, p)] :
       p \in SUBSET Ids, lu \in TsOpt}
    \cup {[_create_initial_state(lu) EXCEPT !.cycle_count["spells"] = n] :
            n \in 1..MaxCycle, lu \in TsOpt}
    \cup {[_create_initial_state(lu) EXCEPT
              !.posted["spells"] = <<id>>,
              !.last_posted["spell"] = Marker(id, lu)] : id \in Ids, lu \in Times}
    \cup {LegacyDoc, EmptyDoc}

SyncDocs == {<<>>} \cup {<<d>> : d \in SyncSnaps}

\* how a call on the gist document ends: one of its outcomes when the
\* operation makes the call, "none" when it does not
CallOutcomes(made, doc) == IF made THEN Outcomes(doc) ELSE {"none"}

\* what req keeps of the outcome of a call made by a sync operation: the
\* sync operations tell a response and a 404 from the failures, and the
\* failures not from one another
Kept(outcome) == IF outcome \in RemoteFailures THEN "failed" ELSE outcome

\* How the GET of _load_gist_state ends in a sync operation.  Every
\* failure takes a branch of _load_gist_state that returns None, as the
\* 404 does: a timeout stands for the failures here (LoadState draws all
\* of them for _load_state).
GetOutcomes(made, doc) ==
    IF made THEN (IF doc = <<>> THEN {"notfound"} ELSE {"ok"}) \cup {"timeout"}
    ELSE {"none"}

InitStore ==
    /\ IdleMerge
    /\ IdleManager
    /\ IdlePublisher
    /\ IdleSync
    /\ IdleClient
    /\ IdleValidator
    /\ IdleProcs
    /\ hasGist \in BOOLEAN
    /\ gist \in SyncDocs
    /\ localFile \in SyncDocs
    /\ hasGist = FALSE => gist = <<>>
    /\ now = MaxTime

\* what an operation leaves in the stores and returns
Leaves(r) ==
    /\ gist' = r.gist
    /\ localFile' = r.localFile
    /\ backupFile' = r.backupFile
    /\ ret' = <<IF r.ret THEN "True" ELSE "False">>

\* manager.sync_from_gist(force, dry_run)
SyncFromGist ==
  /\ req.op = "none"
  /\
    \E force \in BOOLEAN, dry_run \in BOOLEAN, get \in GetOutcomes(hasGist, gist),
       copied \in BOOLEAN :
       /\ Leaves(sync_from_gist(force, dry_run, hasGist, get, gist, localFile,
                                backupFile, copied, now))
       /\ req' = [NoReq EXCEPT !.op = "sync_from_gist", !.force = force,
                               !.dry_run = dry_run, !.get = Kept(get)]
       /\ UNCHANGED <<auxVars, mergeVars, hasGist, now, state, call, calls, pubVars>>

\* manager.sync_to_gist(force, dry_run); the PATCH has an outcome on the
\* paths that reach it
SyncToGist ==
  /\ req.op = "none"
  /\
    \E force \in BOOLEAN, dry_run \in BOOLEAN :
     \E get \in GetOutcomes(hasGist /\ localFile # <<>>, gist) :
      \E patch \in CallOutcomes(sync_to_gist(force, dry_run, hasGist, get, "ok", gist,
                                             localFile, backupFile, now).patched,
                                gist) :
       /\ Leaves(sync_to_gist(force, dry_run, hasGist, get, patch, gist, localFile,
                              backupFile, now))
       /\ req' = [NoReq EXCEPT !.op = "sync_to_gist", !.force = force,
                               !.dry_run = dry_run, !.get = Kept(get), !.patch = Kept(patch)]
       /\ UNCHANGED <<auxVars, mergeVars, hasGist, now, state, call, calls, pubVars>>

\* manager.sync_auto(dry_run); the second GET and the PATCH have an outcome
\* on the paths that reach them, the order of the merged lists is open on
\* the path that merges
SyncAuto ==
  /\ req.op = "none"
  /\
    \E dry_run \in BOOLEAN, get \in GetOutcomes(hasGist, gist), copied \in BOOLEAN :
     \E get2 \in GetOutcomes(sync_auto(dry_run, hasGist, get, "ok", "ok", gist,
                                        localFile, backupFile, copied, now,
                                        IdOrder).got2,
                               gist) :
      LET reach == sync_auto(dry_run, hasGist, get, get2, "ok", gist, localFile,
                             backupFile, copied, now, IdOrder)
      IN
      \E patch \in CallOutcomes(reach.res.patched, gist),
         enum \in IF reach.res.patched /\ ~reach.got2 THEN IterOrders(Ids)
                  ELSE {IdOrder} :
       /\ Leaves(sync_auto(dry_run, hasGist, get, get2, patch, gist, localFile,
                           backupFile, copied, now, enum).res)
       /\ req' = [NoReq EXCEPT !.op = "sync_auto", !.dry_run = dry_run,
                               !.get = Kept(get), !.get2 = Kept(get2),
                               !.patch = Kept(patch)]
       /\ UNCHANGED <<auxVars, mergeVars, hasGist, now, state, call, calls, pubVars>>

\* StateManager(): self.state = self._load_state()
LoadState ==
  /\ req.op = "none"
  /\
    \E get \in CallOutcomes(hasGist, gist) :
       /\ state' = _load_state(hasGist, get, gist, localFile, now)
       /\ req' = [NoReq EXCEPT !.op = "_load_state", !.get = get]
       /\ UNCHANGED <<auxVars, mergeVars, storeVars, backupFile, call, ret, calls, pubVars>>

\* self._save_state() on the loaded state, at the next tick of the clock
SaveState ==
  /\ req.op = "_load_state"
  /\
    \E patch \in CallOutcomes(hasGist, gist) :
       /\ now' = now + 1
       /\ LET saved == _save_state(state, hasGist, patch, gist, localFile, now')
          IN  /\ state' = saved.state
              /\ gist' = saved.gist
              /\ localFile' = saved.localFile
       /\ req' = [NoReq EXCEPT !.op = "_save_state", !.patch = patch]
       /\ UNCHANGED <<auxVars, mergeVars, hasGist, backupFile, call, ret, calls, pubVars>>

NextStore == SyncFromGist \/ SyncToGist \/ SyncAuto \/ LoadState \/ SaveState

SpecStore == InitStore /\ [][NextStore]_vars

\* ------------------------------------------------------------------------
\* SpecMigrate: _migrate_state applied to a raw document, twice
\* ------------------------------------------------------------------------
\* json.load of a stored document of any age: each posted list, each
\* marker (null included), each cycle count and the cycle_count dict
\* itself may be missing
RawSnaps ==
    {[posted          |-> p,
      last_posted     |-> m,
      has_cycle_count |-> cc # <<>>,
      cycle_count     |-> IF cc # <<>> THEN cc[1] ELSE EmptyMap,
      last_updated    |-> lu] :
        p \in PartialFns(Cats, {<<>>, <<"a">>, <<"b", "a">>}),
        m \in PartialFns(Singulars, {None, Marker("a", 0)}),
        cc \in {<<>>} \cup {<<f>> : f \in PartialFns(Cats, 0..MaxCycle)},
        lu \in {NoKey, 0}}

\* stateA is the raw document, stateB the dict that is migrated in place
InitMigrate ==
    /\ stateA \in RawSnaps
    /\ stateB = stateA
    /\ merged = <<>>
    /\ comparison = <<>>
    /\ IdleStore
    /\ IdleManager
    /\ IdlePublisher
    /\ IdleSync
    /\ IdleClient
    /\ IdleValidator
    /\ IdleProcs

\* state = self._migrate_state(state), on a load and on the load after it
MigrateState ==
    /\ calls < 2
    /\ calls' = calls + 1
    /\ stateB' = _migrate_state(stateB)
    /\ UNCHANGED <<auxVars, syncVars, stateA, merged, comparison, storeVars, state, call, ret,
                   pubVars>>

NextMigrate == MigrateState

SpecMigrate == InitMigrate /\ [][NextMigrate]_vars

\* ------------------------------------------------------------------------
\* SpecRetry: one call of StateManager._gist_api_call_with_retry, attempt
\* by attempt
\* ------------------------------------------------------------------------
\* config/settings.py
GIST_API_MAX_RETRIES == 3

GIST_API_RETRY_DELAY == 1

GIST_API_RETRY_BACKOFF == 2

\* status codes of a response: the ones the client names, two more of the
\* 5xx class and two that it does not classify
StatusCodes == {200, 201, 204, 400, 401, 403, 404, 429, 500, 503}

\* values of the Retry-After header of a 429; the API sends whole seconds
RetryAfterValues == {"0", "3"}

\* int(retry_after)
IntOf(str) == CASE str = "0" -> 0 [] str = "3" -> 3

\* how requests.request may end: a response with its status code and its
\* Retry-After header (<<>> when the header is absent), or an exception of
\* the requests library
Response(status_code, retry_after) ==
    [kind |-> "response", status_code |-> status_code, retry_after |-> retry_after]

Raised(exception) == [kind |-> exception, status_code |-> 0, retry_after |-> <<>>]

RequestOutcomes ==
    {Response(sc, <<>>) : sc \in StatusCodes}
    \cup {Response(429, <<h>>) : h \in RetryAfterValues}
    \cup {Raised(e) : e \in {"Timeout", "ConnectionError", "RequestException"}}

\* mutant: the delay stays what it was
NextDelay_Constant(retry_delay, backoff) == retry_delay

\* retry_delay *= GIST_API_RETRY_BACKOFF, in the branches that back off
NextDelay(retry_delay, backoff) ==
    IF backoff THEN retry_delay * GIST_API_RETRY_BACKOFF ELSE retry_delay

\* mutant: the wait is taken after the last attempt as well
RetryOrRaise_AlwaysSleeps(c, secs, backoff, error) ==
    [c EXCEPT !.sleeps = Append(@, [after |-> Len(c.outcomes), secs |-> secs]),
              !.retry_delay = NextDelay(@, backoff),
              !.attempt = @ + 1]

\* the pattern of a retryable failure: before the last attempt sleep secs,
\* multiply retry_delay when backoff, and continue; on the last attempt
\* raise error
RetryOrRaise(c, secs, backoff, error) ==
    IF c.attempt < GIST_API_MAX_RETRIES - 1
    THEN [c EXCEPT !.sleeps = Append(@, [after |-> Len(c.outcomes), secs |-> secs]),
                   !.retry_delay = NextDelay(@, backoff),
                   !.attempt = @ + 1]
    ELSE [c EXCEPT !.result = error]

\* mutant: a 404 is retried like a server error
StatusBranch_RetriesNotFound(c, status_code, retry_after) ==
    IF status_code \in {200, 201} THEN [c EXCEPT !.result = "response"]
    ELSE IF status_code \in {401, 403} THEN [c EXCEPT !.result = "GistAuthenticationError"]
    ELSE IF status_code = 429
    THEN RetryOrRaise(c, IF retry_after # <<>> THEN IntOf(retry_after[1]) ELSE c.retry_delay,
                      FALSE, "GistRateLimitError")
    ELSE IF status_code >= 500 \/ status_code = 404
    THEN RetryOrRaise(c, c.retry_delay, TRUE, "GistServerError")
    ELSE [c EXCEPT !.result = "GistAPIError"]

\* the branches on response.status_code
StatusBranch(c, status_code, retry_after) ==
    IF status_code \in {200, 201} THEN [c EXCEPT !.result = "response"]
    ELSE IF status_code \in {401, 403} THEN [c EXCEPT !.result = "GistAuthenticationError"]
    ELSE IF status_code = 404 THEN [c EXCEPT !.result = "GistNotFoundError"]
    ELSE IF status_code = 429
    THEN RetryOrRaise(c, IF retry_after # <<>> THEN IntOf(retry_after[1]) ELSE c.retry_delay,
                      FALSE, "GistRateLimitError")
    ELSE IF status_code >= 500
    THEN RetryOrRaise(c, c.retry_delay, TRUE, "GistServerError")
    ELSE [c EXCEPT !.result = "GistAPIError"]

\* mutant: a timeout on the last attempt returns the last response object
Attempt_ReturnsOnExhaustion(c, o) ==
    LET d == [c EXCEPT !.outcomes = Append(@, o)]
    IN  IF o.kind = "response" THEN StatusBranch(d, o.status_code, o.retry_after)
        ELSE IF o.kind = "Timeout"
        THEN RetryOrRaise(d, d.retry_delay, TRUE, "response")
        ELSE IF o.kind = "ConnectionError"
        THEN RetryOrRaise(d, d.retry_delay, TRUE, "GistNetworkError")
        ELSE [d EXCEPT !.result = "GistNetworkError"]

\* one iteration of the loop of _gist_api_call_with_retry: the request ends
\* as o; c holds the locals attempt and retry_delay, the outcomes of the
\* requests made, the sleeps taken (secs, after which request) and how the
\* call ended ("running" until it returns or raises)
Attempt(c, o) ==
    LET d == [c EXCEPT !.outcomes = Append(@, o)]
    IN  IF o.kind = "response" THEN StatusBranch(d, o.status_code, o.retry_after)
        ELSE IF o.kind = "Timeout"
        THEN RetryOrRaise(d, d.retry_delay, TRUE, "GistTimeoutError")
        ELSE IF o.kind = "ConnectionError"
        THEN RetryOrRaise(d, d.retry_delay, TRUE, "GistNetworkError")
        ELSE [d EXCEPT !.result = "GistNetworkError"]

\* the call has been entered: retry_delay = GIST_API_RETRY_DELAY
InitRetry ==
    /\ client = [NoClient EXCEPT !.retry_delay = GIST_API_RETRY_DELAY, !.result = "running"]
    /\ IdleValidator
    /\ IdleProcs
    /\ IdleMerge
    /\ IdleStore
    /\ IdleManager
    /\ IdlePublisher
    /\ IdleSync

\* for attempt in range(GIST_API_MAX_RETRIES): one request and what the
\* body does with its outcome
Request ==
    /\ client.result = "running"
    /\ client.attempt < GIST_API_MAX_RETRIES
    /\ \E o \in RequestOutcomes : client' = Attempt(client, o)
    /\ UNCHANGED <<procs, validation, syncVars, mergeVars, storeVars, managerVars, pubVars>>

NextRetry == Request

SpecRetry == InitRetry /\ [][NextRetry]_vars

\* requests.request blocks for at most the timeout, and time.sleep returns:
\* an iteration that has begun is completed
SpecRetryFair == SpecRetry /\ WF_vars(Request)

\* ------------------------------------------------------------------------
\* SpecValidate: one run of StateManager.validate (StateValidator)
\* ------------------------------------------------------------------------
\* config/settings.py
MAX_CYCLE_COUNT == 1000

TIMESTAMP_FUTURE_TOLERANCE_MINUTES == 5

\* the two tolerances of validate_timestamps as numbers of ticks
\* (TIMESTAMP_PAST_TOLERANCE_YEARS, TIMESTAMP_FUTURE_TOLERANCE_MINUTES)
PastTolerance == 2

FutureTolerance == 1

\* a last_updated or timestamp string that datetime.fromisoformat rejects
Malformed == -3

\* the value is there and is not the empty string
Present(ts) == ts \notin {NoKey, EmptyStr}

\* datetime.fromisoformat(ts.replace('Z', '+00:00')) returns the instant
Parses(ts) == ts >= 0

\* now.replace(year=now.year - 1) and now.replace(minute=now.minute + 5):
\* replace raises ValueError for a day that the year before does not have
\* and for a minute outside 0..59
ReplaceRaises(minute, leap_day) ==
    \/ leap_day
    \/ minute + TIMESTAMP_FUTURE_TOLERANCE_MINUTES \notin 0..59

\* StateValidator.validate_structure
validate_structure(s) ==
    LET no_posted == {c \in Cats : c \notin DOMAIN s.posted}
        no_last == {x \in Singulars : x \notin DOMAIN s.last_posted}
        no_count == {c \in Cats : s.has_cycle_count /\ c \notin DOMAIN s.cycle_count}
        bad_last == {x \in Singulars : /\ x \in DOMAIN s.last_posted
                                       /\ s.last_posted[x] # None
                                       /\ s.last_posted[x].timestamp = NoKey}
        issues == {"no posted_" \o c : c \in no_posted}
                  \cup {"no last_" \o x \o "_posted" : x \in no_last}
                  \cup (IF s.last_updated = NoKey THEN {"no last_updated"} ELSE {})
                  \cup {"no cycle_count of " \o c : c \in no_count}
                  \cup {"last_" \o x \o "_posted lacks id or timestamp" : x \in bad_last}
    IN  [passed |-> issues = {}, issues |-> issues]

\* posted_ids - valid_ids
OrphanedIds(s, category, files) ==
    Range(PostedOf(s, category)) \ Range(files[category][1])

RECURSIVE OrphanCount(_, _, _)
OrphanCount(s, categories, files) ==
    IF categories = {} THEN 0
    ELSE LET c == CHOOSE x \in categories : TRUE
         IN  Cardinality(OrphanedIds(s, c, files)) + OrphanCount(s, categories \ {c}, files)

\* mutant: the fix empties the list
FixedList_DropsAll(list, orphaned_ids) == <<>>

\* [pid for pid in self.state[posted_key] if pid not in orphaned_ids]
FixedList(list, orphaned_ids) ==
    SelectSeq(list, LAMBDA pid : pid \notin orphaned_ids)

\* StateValidator.validate_ids: the result of the check, self.state
\* afterwards and whether save_state_func is called
validate_ids(s, categories, fix, files) ==
    LET checked == {c \in categories : c \in DOMAIN s.posted}
        no_file == {c \in checked : files[c] = <<>>}
        orphaned == {c \in checked \ no_file : OrphanedIds(s, c, files) # {}}
        issues == {c \o ": no data file" : c \in no_file}
                  \cup {c \o ": orphaned ids" : c \in orphaned}
        fixed_count == IF fix THEN OrphanCount(s, orphaned, files) ELSE 0
    IN  [result |-> [passed |-> issues = {}, issues |-> issues, fixed |-> fixed_count],
         state  |-> IF fix
                    THEN [s EXCEPT !.posted =
                            [c \in DOMAIN s.posted |->
                               IF c \in orphaned
                               THEN FixedList(s.posted[c], OrphanedIds(s, c, files))
                               ELSE s.posted[c]]]
                    ELSE s,
         save   |-> fix /\ fixed_count > 0]

\* StateValidator.validate_cycle_counts
validate_cycle_counts(s, categories) ==
    LET counted == {c \in categories : s.has_cycle_count /\ c \in DOMAIN s.cycle_count}
        issues == {c \o ": negative" : c \in {x \in counted : s.cycle_count[x] < 0}}
                  \cup {c \o ": above the maximum" :
                          c \in {x \in counted : s.cycle_count[x] > MAX_CYCLE_COUNT}}
    IN  [passed |-> issues = {}, issues |-> issues]

\* the finding of validate_timestamps on last_<x>_posted, "" for none
MarkerFinding(s, x, future_tolerance) ==
    LET last_posted == LastOf(s, x)
        ts == last_posted.timestamp
    IN  IF last_posted = None THEN ""
        ELSE IF ~Present(ts) THEN "last_" \o x \o "_posted: no timestamp"
        ELSE IF ~Parses(ts) THEN "last_" \o x \o "_posted: bad format"
        ELSE IF ts > future_tolerance THEN "last_" \o x \o "_posted: in the future"
        ELSE IF Present(s.last_updated) /\ Parses(s.last_updated) /\ ts > s.last_updated
        THEN "last_" \o x \o "_posted: newer than last_updated"
        ELSE ""

\* StateValidator.validate_timestamps once one_year_ago and
\* future_tolerance are computed; instant is the clock read
validate_timestamps(s, instant) ==
    LET one_year_ago == instant - PastTolerance
        future_tolerance == instant + FutureTolerance
        lu == s.last_updated
        lu_issue == IF ~Present(lu) THEN {"last_updated: missing"}
                    ELSE IF ~Parses(lu) THEN {"last_updated: bad format"}
                    ELSE IF lu > future_tolerance THEN {"last_updated: in the future"}
                    ELSE {}
        warnings == IF Present(lu) /\ Parses(lu) /\ lu <= future_tolerance /\ lu < one_year_ago
                    THEN {"last_updated: more than a year old"}
                    ELSE {}
        issues == lu_issue \cup ({MarkerFinding(s, x, future_tolerance) : x \in Singulars} \ {""})
    IN  [passed |-> issues = {}, warning |-> warnings # {} /\ issues = {},
         issues |-> issues, warnings |-> warnings]

\* StateValidator.validate_consistency
validate_consistency(s, categories, files) ==
    LET with_file == {c \in categories : files[c] # <<>>}
        posted_ids(c) == Range(PostedOf(s, c))
        too_many == {c \in with_file : Cardinality(posted_ids(c)) > Len(files[c][1])}
        last_posted(c) == LastOf(s, SingularOfPlural(c))
        stray == {c \in with_file \ too_many :
                    last_posted(c) # None /\ last_posted(c).id \notin posted_ids(c)}
        issues == {c \o ": more posted than items" : c \in too_many}
                  \cup {c \o ": last posted id is not in the posted list" : c \in stray}
    IN  [passed |-> issues = {}, issues |-> issues]

\* StateValidator.validate_sync_status: gist_state is what
\* load_gist_state_func returned, local_state the parsed local file
validate_sync_status(gist_state, local_state) ==
    LET warnings == IF ~DictTruthy(gist_state) THEN {"no gist"}
                    ELSE IF ~DictTruthy(local_state) THEN {"no local file"}
                    ELSE IF compare_states(gist_state[1], local_state[1]).is_identical THEN {}
                    ELSE {"gist and local file differ"}
    IN  [passed |-> TRUE, warning |-> warnings # {}, issues |-> {}, warnings |-> warnings]

\* 1 for True
Count(b) == IF b THEN 1 ELSE 0

\* mutant: a warning of the sync check makes the report invalid
ValidFlag_SyncCounts(structure, ids, cycle, timestamps, consistency, sync) ==
    /\ structure.passed
    /\ ids.passed
    /\ cycle.passed
    /\ timestamps.passed \/ timestamps.warning
    /\ consistency.passed
    /\ sync.passed /\ ~sync.warning

\* validation_result["valid"]: set to False in the branches of validate
\* that count a check as failed
ValidFlag(structure, ids, cycle, timestamps, consistency, sync) ==
    /\ structure.passed
    /\ ids.passed
    /\ cycle.passed
    /\ timestamps.passed \/ timestamps.warning
    /\ consistency.passed

\* the report that StateValidator.validate builds from the six results
ValidationReport(structure, ids, cycle, timestamps, consistency, sync) ==
    [valid   |-> ValidFlag(structure, ids, cycle, timestamps, consistency, sync),
     checks  |-> [structure    |-> structure,
                  id_existence |-> ids,
                  cycle_counts |-> cycle,
                  timestamps   |-> timestamps,
                  consistency  |-> consistency,
                  sync_status  |-> sync],
     summary |-> [total_checks |-> 6,
                  passed   |-> Count(structure.passed) + Count(ids.passed)
                               + Count(cycle.passed) + Count(timestamps.passed)
                               + Count(consistency.passed) + Count(sync.passed),
                  failed   |-> Count(~structure.passed) + Count(~ids.passed)
                               + Count(~cycle.passed)
                               + Count(~timestamps.passed /\ ~timestamps.warning)
                               + Count(~consistency.passed),
                  warnings |-> Count(~timestamps.passed /\ timestamps.warning)
                               + Count(~sync.passed /\ sync.warning)]]

\* the categories that validate checks: [category] if category else all
CategoriesToCheck(category) == IF category # <<>> THEN {category[1]} ELSE Cats

\* StateManager.validate / StateValidator.validate: self.state, the gist
\* and the local file afterwards, the exception raised ("" for none) and
\* <<the report>>.  The id check saves its fix before the later checks run;
\* validate_timestamps raises before it looks at the state.
validate(s, fix, category, minute, leap_day, instant, hasG, get, patch, gistDoc, localDoc, files) ==
    LET categories == CategoriesToCheck(category)
        structure == validate_structure(s)
        ids == validate_ids(s, categories, fix, files)
        saved == IF ids.save
                 THEN _save_state(ids.state, hasG, patch, gistDoc, localDoc, instant)
                 ELSE [state |-> ids.state, gist |-> gistDoc, localFile |-> localDoc]
        cycle == validate_cycle_counts(saved.state, categories)
        timestamps == validate_timestamps(saved.state, instant)
        consistency == validate_consistency(saved.state, categories, files)
        sync == validate_sync_status(_load_gist_state(hasG, get, saved.gist), saved.localFile)
    IN  [state     |-> saved.state,
         gist      |-> saved.gist,
         localFile |-> saved.localFile,
         raised    |-> IF ReplaceRaises(minute, leap_day) THEN "ValueError" ELSE "",
         result    |-> IF ReplaceRaises(minute, leap_day) THEN <<>>
                       ELSE <<ValidationReport(structure, ids.result, cycle, timestamps,
                                               consistency, sync)>>]

\* the catalog files of the two categories: both there with one item, or
\* the first with two items and the second missing
DataFiles ==
    {[c \in Cats |-> <<<<"a">>>>],
     [c \in Cats |-> IF c = CATEGORY_CONFIG_PLURAL[1] THEN <<IdOrder>> ELSE <<>>]}

\* the wall clock of a run: minute of the hour, and whether it is 29 February
Clocks ==
    {[minute |-> m, leap_day |-> FALSE] : m \in {0, 54, 55, 59}}
    \cup {[minute |-> 0, leap_day |-> TRUE]}

\* the instant of the run, late enough for a snapshot to be a year old
ValidationTime == PastTolerance + 1

\* values of last_updated: absent, malformed, more than a year old, now,
\* within the tolerance and beyond it
LastUpdatedValues ==
    {NoKey, Malformed, 0, ValidationTime, ValidationTime + FutureTolerance,
     ValidationTime + FutureTolerance + 1}

\* markers of the first category: none, of a posted id at different
\* instants, without timestamp
ValidatedMarkers ==
    {None, Marker("a", NoKey), Marker("a", 0), Marker("a", ValidationTime),
     Marker("b", ValidationTime + FutureTolerance + 1)}

\* the loaded (migrated) snapshots that the validator is run on: the
\* posted list, the marker and last_updated of the first category vary
\* together, the cycle count and the second category's list apart
ValidatedSnaps ==
    {[_create_initial_state(lu) EXCEPT
         !.posted[CATEGORY_CONFIG_PLURAL[1]] = p,
         !.last_posted[SingularOrder[1]] = m] :
       p \in {<<>>, <<"a">>, <<"b">>, <<"b", "a">>}, m \in ValidatedMarkers,
       lu \in LastUpdatedValues}
    \cup
    {[_create_initial_state(lu) EXCEPT
         !.posted = [c \in Cats |-> IF c = CATEGORY_CONFIG_PLURAL[1] THEN p ELSE q],
         !.cycle_count[CATEGORY_CONFIG_PLURAL[1]] = n] :
       p \in {<<>>, <<"b">>}, q \in {<<>>, <<"b">>},
       n \in {-1, 0, MAX_CYCLE_COUNT, MAX_CYCLE_COUNT + 1}, lu \in {0, ValidationTime}}

\* a StateManager has loaded state from the gist (when configured) or from
\* the local file; the local file may be missing or hold another snapshot
InitValidate ==
    /\ IdleMerge
    /\ IdlePublisher
    /\ IdleSync
    /\ IdleClient
    /\ IdleProcs
    /\ call = NoCall
    /\ ret = <<>>
    /\ calls = 0
    /\ now = ValidationTime
    /\ state \in ValidatedSnaps
    /\ hasGist \in BOOLEAN
    /\ gist = IF hasGist THEN <<state>> ELSE <<>>
    /\ localFile \in {<<state>>} \cup (IF hasGist THEN {<<>>, <<_create_initial_state(0)>>} ELSE {})
    /\ \E files \in DataFiles : validation = [NoValidation EXCEPT !.data_files = files]

\* how the PATCH of the save ends: _save_state tells a response from the
\* rest, a timeout stands for the failures
PatchOutcomes(made) == IF made THEN {"ok", "timeout"} ELSE {"none"}

\* python scripts/sync/state_manager.py validate [--fix] [--category c]
Validate ==
    /\ validation.op = "none"
    /\ \E fix \in BOOLEAN, category \in {<<>>} \cup {<<c>> : c \in Cats}, clock \in Clocks :
        \E patch \in PatchOutcomes(hasGist /\ validate_ids(state, CategoriesToCheck(category),
                                                          fix, validation.data_files).save) :
         \E get \in GetOutcomes(hasGist /\ ~ReplaceRaises(clock.minute, clock.leap_day), gist) :
           LET r == validate(state, fix, category, clock.minute, clock.leap_day, now, hasGist,
                             get, patch, gist, localFile, validation.data_files)
           IN  /\ state' = r.state
               /\ gist' = r.gist
               /\ localFile' = r.localFile
               /\ validation' = [validation EXCEPT
                                   !.op = "validate", !.fix = fix, !.category = category,
                                   !.minute = clock.minute, !.leap_day = clock.leap_day,
                                   !.get = get, !.patch = patch, !.before = state,
                                   !.raised = r.raised, !.result = r.result]
               /\ UNCHANGED <<procs, client, syncVars, mergeVars, hasGist, now, call, ret, calls, pubVars>>

NextValidate == Validate

SpecValidate == InitValidate /\ [][NextValidate]_vars

\* ------------------------------------------------------------------------
\* SpecStructure: StateValidator.validate_structure applied to a document
\* ------------------------------------------------------------------------
\* stateA is the dict that the StateValidator is built on
InitStructure ==
    /\ stateA \in RawSnaps
    /\ stateB = _create_initial_state(0)
    /\ merged = <<>>
    /\ comparison = <<>>
    /\ IdleStore
    /\ IdleManager
    /\ IdlePublisher
    /\ IdleSync
    /\ IdleClient
    /\ IdleValidator
    /\ IdleProcs

\* StateValidator(state).validate_structure()
ValidateStructure ==
    /\ validation.op = "none"
    /\ validation' = [validation EXCEPT !.op = "validate_structure", !.before = stateA,
                                        !.result = <<validate_structure(stateA)>>]
    /\ UNCHANGED <<procs, client, syncVars, mergeVars, storeVars, managerVars, pubVars>>

NextStructure == ValidateStructure

SpecStructure == InitStructure /\ [][NextStructure]_vars

\* ------------------------------------------------------------------------
\* SpecPublishers: two processes that each mark an item on the same gist
\* ------------------------------------------------------------------------
\* the item that each process has tweeted
MarkedBy == [p \in Procs |-> IdOrder[p]]

\* the gist holds a document; no process has a local file
InitPublishers ==
    /\ IdleMerge
    /\ IdleManager
    /\ IdlePublisher
    /\ IdleSync
    /\ IdleClient
    /\ IdleValidator
    /\ hasGist = TRUE
    /\ gist \in SyncDocs \ {<<>>}
    /\ localFile = <<>>
    /\ now = 1
    /\ procs = [p \in Procs |-> [NoProc EXCEPT !.pc = "start", !.id = MarkedBy[p]]]

\* state_manager = StateManager() in process p: _load_state with its GET
ProcLoad(p) ==
    /\ procs[p].pc = "start"
    /\ \E get \in RunOutcomes(gist) :
          procs' = [procs EXCEPT ![p].pc = "loaded",
                                 ![p].get = get,
                                 ![p].state = _load_state(hasGist, get, gist,
                                                          procs[p].localFile, now)]
    /\ UNCHANGED <<client, validation, syncVars, mergeVars, storeVars, managerVars, pubVars>>

\* state_manager.mark_as_posted('spell', id) in process p, with the PATCH
\* of its _save_state; t2 is the clock read of _save_state
ProcMark(p) ==
    /\ procs[p].pc = "loaded"
    /\ \E patch \in RunOutcomes(gist), t2 \in now..(now + 1) :
          LET saved == _save_state(mark_as_posted(procs[p].state, "spell", procs[p].id, now),
                                   hasGist, patch, gist, procs[p].localFile, t2)
          IN  /\ procs' = [procs EXCEPT ![p].pc = "done",
                                        ![p].patch = patch,
                                        ![p].state = saved.state,
                                        ![p].localFile = saved.localFile]
              /\ gist' = saved.gist
              /\ now' = t2
    /\ UNCHANGED <<client, validation, syncVars, mergeVars, hasGist, localFile, managerVars,
                   pubVars>>

NextPublishers == \E p \in Procs : ProcLoad(p) \/ ProcMark(p)

SpecPublishers == InitPublishers /\ [][NextPublishers]_vars

\* ------------------------------------------------------------------------
\* SpecSyncers: two processes that each run sync_auto on the same gist
\* ------------------------------------------------------------------------
\* the documents of the gist and of the local files: the posted list or the
\* cycle count of the first category varies, and last_updated
SharedSnaps(stamps) ==
    {[_create_initial_state(lu) EXCEPT !.posted["spells"] = FilterList(IdOrder, ps)] :
       ps \in SUBSET Ids, lu \in stamps}
    \cup {[_create_initial_state(lu) EXCEPT !.cycle_count["spells"] = n] :
            n \in 1..MaxCycle, lu \in stamps}

\* the gist holds a document; each process has its own local file or none
InitSyncers ==
    /\ IdleMerge
    /\ IdleManager
    /\ IdlePublisher
    /\ IdleSync
    /\ IdleClient
    /\ IdleValidator
    /\ hasGist = TRUE
    /\ gist \in {<<d>> : d \in SharedSnaps({0})}
    /\ localFile = <<>>
    /\ now = MaxTime
    /\ \E files \in [Procs -> {<<>>} \cup {<<d>> : d \in SharedSnaps({0, MaxTime})}] :
          procs = [p \in Procs |-> [NoProc EXCEPT !.pc = "start", !.localFile = files[p]]]

\* sync_auto in process p up to gist_state = self._load_gist_state()
AutoRead(p) ==
    /\ procs[p].pc = "start"
    /\ \E get \in GetOutcomes(hasGist, gist) :
          procs' = [procs EXCEPT ![p].pc = "read",
                                 ![p].get = Kept(get),
                                 ![p].seen = _load_gist_state(hasGist, get, gist)]
    /\ UNCHANGED <<client, validation, syncVars, mergeVars, storeVars, managerVars, pubVars>>

\* the rest of sync_auto in process p.  With both snapshots there it
\* merges the document it has read with its local file and PATCHes the
\* result; with one of them missing it hands over to sync_from_gist or to
\* sync_to_gist, which read the gist again.
AutoFinish(p) ==
    /\ procs[p].pc = "read"
    /\ LET seen == procs[p].seen
           own == procs[p].localFile
           get == IF seen # <<>> THEN "ok" ELSE "timeout"
           doc == IF DictTruthy(seen) /\ DictTruthy(own) THEN seen ELSE gist
       IN
       \E copied \in BOOLEAN :
        \E get2 \in GetOutcomes(sync_auto(FALSE, hasGist, get, "ok", "ok", doc, own,
                                           procs[p].backupFile, copied, now,
                                           IdOrder).got2,
                                 gist) :
         LET reach == sync_auto(FALSE, hasGist, get, get2, "ok", doc, own,
                                procs[p].backupFile, copied, now, IdOrder)
         IN
         \E patch \in GetOutcomes(reach.res.patched, gist),
            enum \in IF reach.res.patched /\ ~reach.got2 THEN IterOrders(Ids)
                     ELSE {IdOrder} :
            LET r == sync_auto(FALSE, hasGist, get, get2, patch, doc, own,
                               procs[p].backupFile, copied, now, enum).res
            IN  /\ procs' = [procs EXCEPT ![p].pc = "done",
                                          ![p].patch = Kept(patch),
                                          ![p].localFile = r.localFile,
                                          ![p].backupFile = r.backupFile,
                                          ![p].ret = <<IF r.ret THEN "True" ELSE "False">>]
                /\ gist' = IF r.patched /\ patch = "ok" THEN r.gist ELSE gist
    /\ UNCHANGED <<client, validation, syncVars, mergeVars, hasGist, localFile, now,
                   managerVars, pubVars>>

NextSyncers == \E p \in Procs : AutoRead(p) \/ AutoFinish(p)

SpecSyncers == InitSyncers /\ [][NextSyncers]_vars

\* ------------------------------------------------------------------------
\* Properties of merge_states and compare_states (SpecMerge)
\* ------------------------------------------------------------------------
\* the ids of posted[c] in a stored snapshot, the empty set without the key
IdsOf(s, c) ==
    IF c \in DOMAIN s.posted THEN {s.posted[c][i] : i \in 1..Len(s.posted[c])} ELSE {}

\* cycleCount[c] of a stored snapshot, a missing count being 0
CountOf(s, c) ==
    IF s.has_cycle_count /\ c \in DOMAIN s.cycle_count THEN s.cycle_count[c] ELSE 0

\* lastPosted[c] of a stored snapshot, None without the key
MarkerOf(s, c) ==
    IF c \in DOMAIN s.last_posted THEN s.last_posted[c] ELSE None

\* C5: for every known category the posted list of merge_states(A, B)
\* holds exactly the ids of A.posted[c] and of B.posted[c]: none is
\* dropped, none is added.
C5_MergePostedIsUnion ==
    merged # <<>> =>
       \A c \in Cats : IdsOf(merged[1], c) = IdsOf(stateA, c) \cup IdsOf(stateB, c)

C5_Witness ==
    /\ merged # <<>>
    /\ \E c \in Cats :
          /\ IdsOf(stateA, c) \ IdsOf(stateB, c) # {}
          /\ IdsOf(stateB, c) \ IdsOf(stateA, c) # {}
          /\ IdsOf(merged[1], c) = Ids

\* C6: for every known category the cycle count of merge_states(A, B) is
\* the greater of the two counts, a missing count being 0, so it is lower
\* than neither.
C6_MergeCycleIsMax ==
    merged # <<>> =>
       \A c \in Cats :
          /\ CountOf(merged[1], c) \in {CountOf(stateA, c), CountOf(stateB, c)}
          /\ CountOf(merged[1], c) >= CountOf(stateA, c)
          /\ CountOf(merged[1], c) >= CountOf(stateB, c)

C6_Witness ==
    /\ merged # <<>>
    /\ \E c \in Cats :
          /\ c \notin DOMAIN stateA.cycle_count
          /\ CountOf(stateB, c) > 0
          /\ CountOf(merged[1], c) = CountOf(stateB, c)

\* C7: with prefer_newer, the last_updated of merge_states(A, B) is the
\* later of A.last_updated and B.last_updated, whatever markers A and B
\* carry.  Stated for the snapshots whose two last_updated strings compare
\* as their instants do.
C7_MergeLastUpdatedIsMax ==
    (/\ merged # <<>>
     /\ stateA.last_updated \in Times
     /\ stateB.last_updated \in Times
     /\ StrGeq(stateA.last_updated, stateB.last_updated)
           <=> stateA.last_updated >= stateB.last_updated) =>
       merged[1].last_updated =
          (IF stateA.last_updated >= stateB.last_updated
           THEN stateA.last_updated ELSE stateB.last_updated)

\* C8: for every category the marker of merge_states(A, B) is the marker
\* with the later timestamp, A's marker when the two timestamps are equal,
\* the only marker when one side has none, and None when neither has one.
C8_MergeLastPostedNewer ==
    merged # <<>> =>
       \A s \in Singulars :
          LET a == MarkerOf(stateA, s)
              b == MarkerOf(stateB, s)
          IN  MarkerOf(merged[1], s) =
                 (IF a # None /\ b # None
                  THEN (IF a.timestamp >= b.timestamp THEN a ELSE b)
                  ELSE IF a # None THEN a ELSE b)

\* C9: compare_states(A, B) reports a conflict if and only if in some
\* category A has a posted id that B lacks and B has one that A lacks;
\* one-sided extras, differing cycle counts and differing last_updated
\* alone give no conflict.
C9_ConflictIffBothSidesExtra ==
    comparison # <<>> =>
       (comparison[1].has_conflict <=>
          \E c \in Cats :
             /\ IdsOf(stateA, c) \ IdsOf(stateB, c) # {}
             /\ IdsOf(stateB, c) \ IdsOf(stateA, c) # {})

C9_Witness ==
    /\ comparison # <<>>
    /\ comparison[1].has_conflict
    /\ \E c, d \in Cats :
          /\ IdsOf(stateA, c) \ IdsOf(stateB, c) # {}
          /\ IdsOf(stateB, c) \ IdsOf(stateA, c) # {}
          /\ IdsOf(stateA, d) \ IdsOf(stateB, d) # {}
          /\ IdsOf(stateB, d) \ IdsOf(stateA, d) = {}

\* C10: compare_states(A, B) reports the snapshots identical only when no
\* category differs in its posted ids, none differs in its cycle count and
\* the two last_updated fields are the same; a snapshot with a
\* last_updated and one without are not identical.
C10_IdenticalOnlyWhenAllMatch ==
    (comparison # <<>> /\ comparison[1].is_identical) =>
       /\ \A c \in Cats : IdsOf(stateA, c) = IdsOf(stateB, c)
       /\ \A c \in Cats : CountOf(stateA, c) = CountOf(stateB, c)
       /\ stateA.last_updated = stateB.last_updated

\* C11: comparison is symmetric: compare_states(A, B) and
\* compare_states(B, A) give the same is_identical, for all snapshots A
\* and B.
C11_CompareSymmetric ==
    comparison # <<>> =>
       comparison[1].is_identical = compare_states(stateB, stateA).is_identical

C11_Witness ==
    /\ comparison # <<>>
    /\ ~comparison[1].is_identical
    /\ ~comparison[1].has_conflict
    /\ stateA.last_updated = stateB.last_updated
    /\ \A c \in Cats : CountOf(stateA, c) = CountOf(stateB, c)
    /\ \A c \in Cats : IdsOf(stateA, c) \ IdsOf(stateB, c) = {}
    /\ \E c \in Cats : IdsOf(stateB, c) \ IdsOf(stateA, c) # {}

\* ------------------------------------------------------------------------
\* Properties of the selector on one StateManager (Spec)
\* ------------------------------------------------------------------------
\* a step of the specification that is a call of op
IsCall(op) == calls' = calls + 1 /\ call'.op = op

\* the catalog ids that are not in posted[key] of snapshot s
Unposted(s, key, items) == {items[i] : i \in 1..Len(items)} \ IdsOf(s, key)

\* the items of the list whose id is in S, in the order of the list
RECURSIVE Keep(_, _)
Keep(items, S) ==
    IF Len(items) = 0 THEN <<>>
    ELSE IF items[1] \in S THEN <<items[1]>> \o Keep(SubSeq(items, 2, Len(items)), S)
    ELSE Keep(SubSeq(items, 2, Len(items)), S)

NoDuplicates(list) == \A i, j \in 1..Len(list) : list[i] = list[j] => i = j

\* C2: get_available_items(category, catalog) returns exactly the catalog
\* items whose id is not in posted[category]; when there is none it clears
\* posted[category], adds exactly 1 to cycleCount[category] and returns the
\* whole catalog; when there is one it changes neither posted nor
\* cycleCount.
C2_GetAvailableItems ==
    [][IsCall("get_available_items") =>
         LET key == call'.category \o "s"
             items == call'.items
         IN  IF Unposted(state, key, items) = {}
             THEN /\ state'.posted[key] = <<>>
                  /\ state'.cycle_count[key] = state.cycle_count[key] + 1
                  /\ ret' = items
             ELSE /\ ret' = Keep(items, Unposted(state, key, items))
                  /\ state'.posted = state.posted
                  /\ state'.cycle_count = state.cycle_count]_vars

C2_Witness ==
    /\ call.op = "get_available_items"
    /\ call.items = <<"a", "b">>
    /\ ret = <<"a", "b">>
    /\ state.posted["spells"] = <<>>
    /\ state.cycle_count["spells"] = 1
    /\ state.last_posted["spell"] # None

\* C3: mark_as_posted(category, id) leaves posted[category] without
\* duplicate and holding id; when id was in it already, the length of
\* posted[category] is unchanged.
C3_MarkAsPostedIdempotent ==
    [][IsCall("mark_as_posted") =>
         LET key == call'.category \o "s"
         IN  /\ NoDuplicates(state'.posted[key])
             /\ call'.id \in IdsOf(state', key)
             /\ call'.id \in IdsOf(state, key) =>
                   Len(state'.posted[key]) = Len(state.posted[key])]_vars

C3_Witness ==
    /\ call.op = "mark_as_posted"
    /\ call.already
    /\ calls >= 2
    /\ state.posted[call.category \o "s"] = <<call.id>>

\* C4: get_random_available_item returns one element of the list that
\* get_available_items returns for the same snapshot and catalog (an
\* unposted item, or any item when none is unposted), and returns nothing
\* exactly when the catalog is empty.
C4_RandomItemIsAvailable ==
    [][IsCall("get_random_available_item") =>
         LET key == call'.category \o "s"
             items == call'.items
             expected == IF Unposted(state, key, items) = {}
                         THEN {items[i] : i \in 1..Len(items)}
                         ELSE Unposted(state, key, items)
         IN  /\ ret' = <<>> <=> items = <<>>
             /\ ret' # <<>> => Len(ret') = 1 /\ ret'[1] \in expected]_vars

C4_Witness ==
    /\ call.op = "get_random_available_item"
    /\ call.items = <<"a", "b">>
    /\ ret = <<"b">>
    /\ state.posted["spells"] = <<"a">>

\* ------------------------------------------------------------------------
\* Properties of the publisher flow (SpecPub)
\* ------------------------------------------------------------------------
\* In the list of published ids, read from the oldest, an id comes again
\* only after every id of the catalog has come since the last restart;
\* seen holds the ids that have come since then.
RECURSIVE NoEarlyRepeat(_, _, _)
NoEarlyRepeat(log, seen, all) ==
    IF Len(log) = 0 THEN TRUE
    ELSE IF log[1] \notin seen
         THEN NoEarlyRepeat(SubSeq(log, 2, Len(log)), seen \cup {log[1]}, all)
    ELSE IF seen = all
         THEN NoEarlyRepeat(SubSeq(log, 2, Len(log)), {log[1]}, all)
    ELSE FALSE

\* C1: in the runs of post_glossary_item for one category, one after the
\* other, no item is published a second time before every item of the
\* category's catalog has been published once since the last reset, for
\* any number of runs; stated for the runs in which no call on the gist
\* fails.
C1_NoRepeatBeforeFullCycle ==
    ~faulted =>
       \A s \in Singulars :
          NoEarlyRepeat(published[s], {}, {Catalog[s][i] : i \in 1..Len(Catalog[s])})

\* ------------------------------------------------------------------------
\* Properties of the operations on the stores (SpecStore)
\* ------------------------------------------------------------------------
\* a step of the specification that is a run of op
IsRun(op) == req.op = "none" /\ req'.op = op

\* the step writes neither the local file, nor the backup, nor the gist
WritesNothing == gist' = gist /\ localFile' = localFile /\ backupFile' = backupFile

\* the operation read both snapshots: the local file exists and its GET
\* came back with a document that is not empty
ReadBoth ==
    /\ localFile # <<>>
    /\ gist # <<>>
    /\ gist[1] # EmptyDoc
    /\ req'.get = "ok"

\* in some category each of the snapshots has a posted id the other lacks
Diverged(a, b) ==
    \E c \in Cats : IdsOf(a, c) \ IdsOf(b, c) # {} /\ IdsOf(b, c) \ IdsOf(a, c) # {}

\* instant t1 is earlier than instant t2, both fields being there
Earlier(t1, t2) == t1 \in Times /\ t2 \in Times /\ t1 < t2

\* C12: stale-overwrite guard: in a pull or a push without force, when the
\* destination's last_updated is a later instant than the source's (pull:
\* the local file is later than the gist, push: the gist is later than the
\* local file), the operation returns False and writes neither the local
\* file, nor the backup, nor the gist.
C12_StaleOverwriteGuard ==
    [][(/\ ReadBoth
        /\ ~req'.force
        /\ \/ /\ IsRun("sync_from_gist")
              /\ Earlier(gist[1].last_updated, localFile[1].last_updated)
           \/ /\ IsRun("sync_to_gist")
              /\ Earlier(localFile[1].last_updated, gist[1].last_updated))
       => (ret' = <<"False">> /\ WritesNothing)]_vars

\* C13: conflict guard: in a pull or a push without force, when the two
\* snapshots have diverged (compare_states reports has_conflict), the
\* operation returns False and writes neither the local file, nor the
\* backup, nor the gist.
C13_ConflictGuard ==
    [][(/\ IsRun("sync_from_gist") \/ IsRun("sync_to_gist")
        /\ ReadBoth
        /\ ~req'.force
        /\ Diverged(gist[1], localFile[1]))
       => (ret' = <<"False">> /\ WritesNothing)]_vars

C13_Witness ==
    /\ req.op = "sync_from_gist"
    /\ ~req.force
    /\ ~req.dry_run
    /\ req.get = "ok"
    /\ ret = <<"False">>
    /\ localFile # <<>>
    /\ gist # <<>>
    /\ Diverged(gist[1], localFile[1])
    /\ Earlier(localFile[1].last_updated, gist[1].last_updated)
    /\ StrLess(localFile[1].last_updated, gist[1].last_updated)

\* C14: sync_auto never aborts because of a conflict: when both snapshots
\* are read and compare_states does not report them identical (dry_run
\* unset), the local file afterwards holds merge_states(remote, local),
\* however the PATCH ends; when the PATCH succeeds the gist holds the same
\* merged snapshot and the run returns True; when it fails the gist is as
\* before, the run returns False and the local file keeps the merged
\* snapshot.
C14_AutoAlwaysMerges ==
    [][(/\ IsRun("sync_auto")
        /\ ~req'.dry_run
        /\ ReadBoth
        /\ localFile[1] # EmptyDoc
        /\ ~compare_states(gist[1], localFile[1]).is_identical)
       => /\ \E enum \in IterOrders(Ids) :
                localFile' = <<merge_states(gist[1], localFile[1], TRUE, now, enum)>>
          /\ req'.patch # "none"
          /\ req'.patch = "ok" => (gist' = localFile' /\ ret' = <<"True">>)
          /\ req'.patch # "ok" => (gist' = gist /\ ret' = <<"False">>)]_vars

C14_Witness ==
    /\ req.op = "sync_auto"
    /\ ~req.dry_run
    /\ req.patch = "failed"
    /\ ret = <<"False">>
    /\ gist # <<>>
    /\ backupFile # <<>>
    /\ Diverged(gist[1], backupFile[1])
    /\ localFile # backupFile
    /\ IdsOf(localFile[1], "spells") = Ids

\* C15: OnlyRemote: when the gist holds a snapshot whose last_updated is
\* not in the future and there is no local file, sync_auto (dry_run unset)
\* copies the gist's snapshot to the local file and returns True.
C15_OnlyRemoteCopies ==
    [][(/\ IsRun("sync_auto")
        /\ ~req'.dry_run
        /\ localFile = <<>>
        /\ gist # <<>>
        /\ gist[1] # EmptyDoc
        /\ req'.get = "ok"
        /\ req'.get2 = "ok"
        /\ gist[1].last_updated \in Times
        /\ gist[1].last_updated <= now)
       => (ret' = <<"True">> /\ localFile' = gist)]_vars

\* C16: OnlyLocal: when the local file holds a snapshot whose last_updated
\* is not in the future and no snapshot can be read from the gist (its
\* GETs fail), sync_auto (dry_run unset, the PATCH on the gist succeeding
\* if it is made) copies the local snapshot to the gist and returns True.
C16_OnlyLocalCopies ==
    [][(/\ IsRun("sync_auto")
        /\ ~req'.dry_run
        /\ hasGist
        /\ gist # <<>>
        /\ localFile # <<>>
        /\ localFile[1] # EmptyDoc
        /\ req'.get = "failed"
        /\ req'.get2 = "failed"
        /\ req'.patch \in {"ok", "none"}
        /\ localFile[1].last_updated \in Times
        /\ localFile[1].last_updated <= now)
       => (ret' = <<"True">> /\ gist' = localFile)]_vars

\* C17: with dry_run set, sync_from_gist, sync_to_gist and sync_auto leave
\* the local file, the backup file and the gist unchanged on every path.
C17_DryRunWritesNothing ==
    [][(/\ IsRun("sync_from_gist") \/ IsRun("sync_to_gist") \/ IsRun("sync_auto")
        /\ req'.dry_run)
       => WritesNothing]_vars

C17_Witness ==
    /\ req.op = "sync_auto"
    /\ req.dry_run
    /\ req.get = "ok"
    /\ ret = <<"True">>
    /\ gist # <<>>
    /\ localFile # <<>>
    /\ backupFile = <<>>
    /\ Diverged(gist[1], localFile[1])

\* a snapshot that is all empty and all zero
Fresh(s) ==
    /\ \A c \in Cats : c \in DOMAIN s.posted /\ s.posted[c] = <<>>
    /\ \A x \in Singulars : MarkerOf(s, x) = None
    /\ \A c \in Cats : CountOf(s, c) = 0

\* snapshot s holds what document d holds, category by category
HoldsWhat(s, d) ==
    /\ \A c \in Cats : IdsOf(s, c) = IdsOf(d, c)
    /\ \A x \in Singulars : MarkerOf(s, x) = MarkerOf(d, x)
    /\ \A c \in Cats : CountOf(s, c) = CountOf(d, c)
    /\ s.last_updated = d.last_updated

\* C18: _load_state tries the gist first and returns what it holds; a 404
\* gives a fresh snapshot; every other failure of the GET (retries used up
\* and a malformed document included) gives what the local file holds, and
\* a fresh snapshot when there is no local file; every outcome of the GET
\* ends in a snapshot.
C18_LoadFallsBack ==
    [][IsRun("_load_state") =>
         /\ req'.get = "ok" => HoldsWhat(state', gist[1])
         /\ req'.get = "notfound" => Fresh(state')
         /\ req'.get \in RemoteFailures \cup {"none"} =>
               IF localFile # <<>> THEN HoldsWhat(state', localFile[1])
               ELSE Fresh(state')]_vars

C18_Witness ==
    /\ req.op = "_load_state"
    /\ req.get = "unexpected"
    /\ gist # <<>>
    /\ localFile # <<>>
    /\ ~HoldsWhat(gist[1], localFile[1])
    /\ HoldsWhat(state, localFile[1])
    /\ IdsOf(state, "spells") # {}

\* a step of the specification that is a run of _save_state
IsSave == req.op = "_load_state" /\ req'.op = "_save_state"

\* C19: _save_state stamps last_updated with the current time and tries
\* the PATCH; when the PATCH fails, in whichever way (auth, rate limit,
\* server, network, timeout, generic, unexpected), the stamped snapshot is
\* written to the local file, the gist stays as it was, and the call
\* returns.
C19_SaveFallsBack ==
    [][IsSave =>
         /\ state' = [state EXCEPT !.last_updated = now']
         /\ req'.patch \in RemoteFailures =>
               (localFile' = <<state'>> /\ gist' = gist)
         /\ req'.patch = "ok" => (gist' = <<state'>> /\ localFile' = localFile)]_vars

C19_Witness ==
    /\ req.op = "_save_state"
    /\ req.patch = "ratelimit"
    /\ gist # <<>>
    /\ localFile = <<state>>
    /\ gist # localFile
    /\ state.last_updated = now
    /\ IdsOf(state, "spells") # {}

\* ------------------------------------------------------------------------
\* Properties of the migration (SpecMigrate)
\* ------------------------------------------------------------------------
\* the migrated dict has every known category; what the raw document held
\* is as it was, what it lacked is empty, absent or 0
Additive(raw, migrated) ==
    /\ \A c \in Cats :
          /\ c \in DOMAIN migrated.posted
          /\ migrated.posted[c] =
                (IF c \in DOMAIN raw.posted THEN raw.posted[c] ELSE <<>>)
    /\ \A x \in Singulars :
          /\ x \in DOMAIN migrated.last_posted
          /\ migrated.last_posted[x] =
                (IF x \in DOMAIN raw.last_posted THEN raw.last_posted[x] ELSE None)
    /\ migrated.has_cycle_count
    /\ \A c \in Cats :
          /\ c \in DOMAIN migrated.cycle_count
          /\ migrated.cycle_count[c] =
                (IF raw.has_cycle_count /\ c \in DOMAIN raw.cycle_count
                 THEN raw.cycle_count[c] ELSE 0)
    /\ migrated.last_updated = raw.last_updated

\* C20: migration is additive and idempotent: after _migrate_state every
\* known category that the raw snapshot lacked has an empty posted list, no
\* marker and the count 0, every posted list, marker and count that it had
\* is unchanged, and migrating the migrated snapshot again changes nothing.
C20_MigrateAdditiveIdempotent ==
    /\ [](calls >= 1 => Additive(stateA, stateB))
    /\ [][calls = 1 => stateB' = stateB]_vars

C20_Witness ==
    /\ calls = 2
    /\ stateB # stateA
    /\ "potions" \notin DOMAIN stateA.posted
    /\ "potion" \notin DOMAIN stateA.last_posted
    /\ ~stateA.has_cycle_count
    /\ "spells" \in DOMAIN stateA.posted
    /\ stateA.posted["spells"] = <<"b", "a">>
    /\ "spell" \in DOMAIN stateA.last_posted
    /\ stateA.last_posted["spell"] = Marker("a", 0)

\* ------------------------------------------------------------------------
\* Properties of the retrying client (SpecRetry, SpecRetryFair)
\* ------------------------------------------------------------------------
\* number of HTTP attempts made so far
Attempts == Len(client.outcomes)

\* the call has returned or raised
Terminated == client.result # "running"

\* the outcome of the last attempt made
LastOutcome == client.outcomes[Attempts]

\* the i-th sleep follows the i-th attempt; a call that is running has
\* slept after each attempt made and has a further attempt to make, a call
\* that has ended has not slept after its last attempt
SleepsOnlyBetweenAttempts ==
    /\ \A i \in 1..Len(client.sleeps) : client.sleeps[i].after = i
    /\ ~Terminated => Len(client.sleeps) = Attempts /\ Attempts < GIST_API_MAX_RETRIES
    /\ Terminated => Len(client.sleeps) = Attempts - 1

\* C21: whatever the responses and transport errors are, one call of
\* _gist_api_call_with_retry makes at most GIST_API_MAX_RETRIES attempts,
\* sleeps only between two attempts and never after the last one, and
\* ends by returning or raising.
C21_BoundedAttemptsAndTermination ==
    /\ [](Attempts <= GIST_API_MAX_RETRIES /\ SleepsOnlyBetweenAttempts)
    /\ <>Terminated

\* every attempt failed in a retryable way: the last one raised
C21_Witness ==
    /\ Terminated
    /\ Attempts = GIST_API_MAX_RETRIES
    /\ Len(client.sleeps) = GIST_API_MAX_RETRIES - 1
    /\ client.result = "GistServerError"

\* a 5xx response, a timeout or a connection error
IsBackoffFailure(o) ==
    \/ o.kind = "response" /\ o.status_code >= 500
    \/ o.kind \in {"Timeout", "ConnectionError"}

IsSuccess(o) == o.kind = "response" /\ o.status_code \in {200, 201}

RECURSIVE Pow(_, _)
Pow(b, n) == IF n = 0 THEN 1 ELSE b * Pow(b, n - 1)

\* the attempts before the last one made were all server, network or
\* timeout failures
OnlyBackoffFailuresBefore(n) ==
    \A i \in 1..(n - 1) : IsBackoffFailure(client.outcomes[i])

\* C22: after k < GIST_API_MAX_RETRIES consecutive server, network or
\* timeout failures the call is still trying; when the next attempt
\* succeeds the call returns after k+1 attempts, having slept
\* delay, delay*backoff, ..., delay*backoff^(k-1) in that order.
C22_BackoffSchedule ==
    /\ (Attempts < GIST_API_MAX_RETRIES /\ OnlyBackoffFailuresBefore(Attempts + 1))
          => ~Terminated
    /\ (Attempts > 0 /\ IsSuccess(LastOutcome) /\ OnlyBackoffFailuresBefore(Attempts))
          => /\ client.result = "response"
             /\ Len(client.sleeps) = Attempts - 1
             /\ \A i \in 1..Len(client.sleeps) :
                   client.sleeps[i].secs
                     = GIST_API_RETRY_DELAY * Pow(GIST_API_RETRY_BACKOFF, i - 1)

\* two 503s and then a 200
C22_Witness ==
    /\ client.outcomes = <<Response(503, <<>>), Response(503, <<>>), Response(200, <<>>)>>
    /\ client.result = "response"
    /\ client.sleeps = <<[after |-> 1, secs |-> GIST_API_RETRY_DELAY],
                         [after |-> 2, secs |-> GIST_API_RETRY_DELAY * GIST_API_RETRY_BACKOFF]>>

\* the error that a response of a status that is not retried raises
NonRetryableError(o) ==
    IF o.status_code \in {401, 403} THEN "GistAuthenticationError"
    ELSE IF o.status_code = 404 THEN "GistNotFoundError"
    ELSE "GistAPIError"

\* a response that is neither a success, nor a 429, nor of the 5xx class
IsNonRetryable(o) ==
    /\ o.kind = "response"
    /\ o.status_code \notin {200, 201, 429}
    /\ o.status_code < 500

\* C23: a 401 or 403 raises the authentication error, a 404 the not-found
\* error and any other unclassified status the generic error, on the very
\* attempt that got it: it is the last attempt of the call and no sleep
\* follows it, whatever attempts came before.
C23_NonRetryableEndsCall ==
    \A i \in 1..Attempts :
       IsNonRetryable(client.outcomes[i])
         => /\ i = Attempts
            /\ client.result = NonRetryableError(client.outcomes[i])
            /\ Len(client.sleeps) = i - 1

\* a 404 on the second attempt, after a server error and its sleep
C23_Witness ==
    /\ client.outcomes = <<Response(503, <<>>), Response(404, <<>>)>>
    /\ client.result = "GistNotFoundError"
    /\ Len(client.sleeps) = 1

\* the typed error of a retryable failure
TypedError(o) ==
    IF o.kind = "Timeout" THEN "GistTimeoutError"
    ELSE IF o.kind = "ConnectionError" THEN "GistNetworkError"
    ELSE IF o.status_code = 429 THEN "GistRateLimitError"
    ELSE "GistServerError"

IsRetryable(o) ==
    IsBackoffFailure(o) \/ (o.kind = "response" /\ o.status_code = 429)

C25_BackupBeforeOverwrite ==
    [][(localFile # <<>> /\ localFile' # localFile) => backupFile' = localFile]_vars

\* ------------------------------------------------------------------------
\* Properties of the validator (SpecValidate)
\* ------------------------------------------------------------------------
\* the validator has run
Validated == validation.op = "validate"

\* the run returned a report
Returned == Validated /\ validation.result # <<>>

Report == validation.result[1]

\* the names of the six checks
CheckNames ==
    {"structure", "id_existence", "cycle_counts", "timestamps", "consistency", "sync_status"}

\* C26: whatever the loaded snapshot and the wall-clock time of the run
\* are (any minute of the hour, any day of the year), validate raises
\* nothing and returns a report that holds the six checks.
C26_ValidatorNeverRaises ==
    Validated => /\ validation.raised = ""
                 /\ validation.result # <<>>
                 /\ DOMAIN Report.checks = CheckNames

\* C27: the valid flag of a report is true exactly when the structure,
\* id-existence, cycle-count, timestamp and consistency checks passed; the
\* warning about an old last_updated and the findings of the sync check
\* (a side missing, the sides differing) do not make it false.
C27_ValidIffNonWarningChecksPass ==
    Returned =>
      LET k == Report.checks
      IN  /\ Report.valid <=> /\ k.structure.passed
                              /\ k.id_existence.passed
                              /\ k.cycle_counts.passed
                              /\ k.timestamps.passed
                              /\ k.consistency.passed
          /\ k.timestamps.passed <=> k.timestamps.issues = {}
          /\ (/\ k.structure.issues = {}
              /\ k.id_existence.issues = {}
              /\ k.cycle_counts.issues = {}
              /\ k.timestamps.issues = {}
              /\ k.consistency.issues = {}) => Report.valid

\* a report that is valid although last_updated is more than a year old
\* and the gist differs from the local file
C27_Witness ==
    /\ Returned
    /\ Report.valid
    /\ Report.checks.timestamps.warnings # {}
    /\ Report.checks.sync_status.warnings = {"gist and local file differ"}

\* the ids of list that the catalog file of category c holds, in the
\* order of list
InCatalog(list, c) ==
    SelectSeq(list, LAMBDA id : id \in Range(validation.data_files[c][1]))

\* the run checked category c, whose catalog file exists, and posted[c]
\* held an id that the catalog does not hold
HadOrphan(c) ==
    /\ Validated
    /\ c \in CategoriesToCheck(validation.category)
    /\ validation.data_files[c] # <<>>
    /\ \E i \in 1..Len(validation.before.posted[c]) :
          validation.before.posted[c][i] \notin Range(validation.data_files[c][1])

\* C28: when posted[c] holds an id that is not in the catalog of c, the
\* id-existence check of a run that covers c fails; with fix the run
\* leaves in posted[c] exactly the ids that are in the catalog, in their
\* order, saves the snapshot to the gist or to the local file, and the id
\* check run again on that snapshot reports nothing for c (nothing at all
\* when every category checked has its catalog file).
C28_OrphanFix ==
    \A c \in Cats :
       HadOrphan(c) =>
         /\ Returned => ~Report.checks.id_existence.passed
         /\ validation.fix =>
              /\ state.posted[c] = InCatalog(validation.before.posted[c], c)
              /\ gist = <<state>> \/ localFile = <<state>>
              /\ validate_ids(state, {c}, FALSE, validation.data_files).result.passed
              /\ (\A d \in CategoriesToCheck(validation.category) :
                     validation.data_files[d] # <<>>)
                   => validate_ids(state, CategoriesToCheck(validation.category), FALSE,
                                   validation.data_files).result.passed

\* posted_spells was [b, a] with only a in the catalog: the run with fix
\* reported the orphan, left [a] and patched the gist
C28_Witness ==
    /\ Returned
    /\ validation.fix
    /\ HadOrphan("spells")
    /\ validation.before.posted["spells"] = <<"b", "a">>
    /\ state.posted["spells"] = <<"a">>
    /\ ~Report.checks.id_existence.passed
    /\ validation.patch = "ok"
    /\ gist = <<state>>

\* ------------------------------------------------------------------------
\* Directional sync that proceeds, and identical snapshots (SpecStore)
\* ------------------------------------------------------------------------
\* the snapshot that a pull compares the gist with: the local file, or a
\* fresh state when there is no file
PullDestination ==
    IF localFile # <<>> THEN localFile[1] ELSE _create_initial_state(now)

\* the snapshot that a push compares the local file with: the gist read,
\* or a fresh state when the read gave nothing
PushDestination ==
    IF req'.get = "ok" /\ DictTruthy(gist) THEN gist[1] ELSE _create_initial_state(now)

\* the snapshots are not reported identical and neither guard stops the
\* operation (force passes both)
GuardsPass(source, destination, force) ==
    LET cmp == compare_states(source, destination)
    IN  /\ ~cmp.is_identical
        /\ ~ConflictGuard(cmp, force)
        /\ ~StaleGuard(OrEmpty(source.last_updated), OrEmpty(destination.last_updated),
                       force)

\* C29: a pull that read the gist and a push whose PATCH went through,
\* with dry_run unset and with the guards passed or force set, make the
\* destination an exact copy of the source, last_updated included, and
\* return True: after the pull the local file is the document read from
\* the gist, after the push the gist is the document of the local file.
C29_ProceedingSyncCopies ==
    [][/\ (/\ IsRun("sync_from_gist")
           /\ ~req'.dry_run
           /\ req'.get = "ok"
           /\ DictTruthy(gist)
           /\ GuardsPass(gist[1], PullDestination, req'.force))
          => (localFile' = gist /\ gist' = gist /\ ret' = <<"True">>)
       /\ (/\ IsRun("sync_to_gist")
           /\ ~req'.dry_run
           /\ hasGist
           /\ localFile # <<>>
           /\ req'.patch = "ok"
           /\ GuardsPass(localFile[1], PushDestination, req'.force))
          => (gist' = localFile /\ localFile' = localFile /\ ret' = <<"True">>)]_vars

\* a forced pull has replaced a local file of another content by the
\* document of the gist, whose last_updated it carries
C29_Witness ==
    /\ req.op = "sync_from_gist"
    /\ req.force
    /\ ~req.dry_run
    /\ ret = <<"True">>
    /\ gist # <<>>
    /\ localFile = gist
    /\ backupFile # <<>>
    /\ backupFile # localFile
    /\ backupFile[1].last_updated \in Times
    /\ localFile[1].last_updated \in Times
    /\ backupFile[1].last_updated > localFile[1].last_updated

\* C30: when the local file and the gist are both read and compare_states
\* reports them identical, sync_from_gist, sync_to_gist and sync_auto
\* return True and do nothing: no backup, no write of the local file, no
\* PATCH of the gist.
C30_IdenticalIsNoOp ==
    [][(/\ ReadBoth
        /\ \/ IsRun("sync_from_gist")
           \/ IsRun("sync_to_gist")
           \/ IsRun("sync_auto") /\ localFile[1] # EmptyDoc
        /\ compare_states(gist[1], localFile[1]).is_identical)
       => /\ ret' = <<"True">>
          /\ WritesNothing
          /\ req'.patch = "none"]_vars

\* a push without dry_run has found the two documents identical
C30_Witness ==
    /\ req.op = "sync_to_gist"
    /\ ~req.dry_run
    /\ req.get = "ok"
    /\ req.patch = "none"
    /\ ret = <<"True">>
    /\ backupFile = <<>>
    /\ localFile # <<>>
    /\ gist # <<>>
    /\ gist[1] # EmptyDoc
    /\ IdsOf(gist[1], "spells") # {}
    /\ compare_states(gist[1], localFile[1]).is_identical

\* ------------------------------------------------------------------------
\* sync_auto with neither side there (SpecStore)
\* ------------------------------------------------------------------------
\* C31: when there is neither a document in the gist nor a local file,
\* sync_auto returns False and creates or writes nothing: afterwards there
\* is still no local file, no backup and no gist document, and no PATCH
\* was made.
C31_AutoBothMissingFails ==
    [][(IsRun("sync_auto") /\ localFile = <<>> /\ gist = <<>>)
       => /\ ret' = <<"False">>
          /\ WritesNothing
          /\ localFile' = <<>>
          /\ gist' = <<>>
          /\ req'.patch = "none"]_vars

\* sync_auto without dry_run got a 404 and found no local file
C31_Witness ==
    /\ req.op = "sync_auto"
    /\ ~req.dry_run
    /\ hasGist
    /\ req.get = "notfound"
    /\ ret = <<"False">>
    /\ localFile = <<>>
    /\ gist = <<>>
    /\ backupFile = <<>>

\* ------------------------------------------------------------------------
\* Sleep after a 429 (SpecRetry)
\* ------------------------------------------------------------------------
\* C32: the sleep that follows a 429 is the value of its Retry-After
\* header when the header is there, and GIST_API_RETRY_DELAY when it is
\* not, whatever failures came earlier in the call.
C32_RateLimitSleep ==
    \A i \in 1..Len(client.sleeps) :
       LET o == client.outcomes[client.sleeps[i].after]
       IN  (o.kind = "response" /\ o.status_code = 429)
             => client.sleeps[i].secs
                  = IF o.retry_after # <<>> THEN IntOf(o.retry_after[1])
                    ELSE GIST_API_RETRY_DELAY

\* ------------------------------------------------------------------------
\* Structure check on a document (SpecStructure)
\* ------------------------------------------------------------------------
\* C33: a document that lacks the posted list of a required category,
\* last_updated, or the whole cycle_count dict does not pass the structure
\* check.
C33_StructureFailsOnMissingField ==
    validation.op = "validate_structure" =>
      ((\/ \E c \in Cats : c \notin DOMAIN stateA.posted
        \/ stateA.last_updated = NoKey
        \/ ~stateA.has_cycle_count)
       => ~validation.result[1].passed)

\* ------------------------------------------------------------------------
\* The cycle reset in the runs of post_glossary_item (SpecPub)
\* ------------------------------------------------------------------------
\* the document that a fresh StateManager loads and saves
Persisted == IF hasGist THEN gist ELSE localFile

\* the step is a run that posted the tweet and marked the entry
PublishedIn(s) == published'[s] # published[s]

\* every entry of the catalog of s is in the persisted posted list
Exhausted(s) ==
    /\ Persisted # <<>>
    /\ Catalog[s] # <<>>
    /\ Range(Catalog[s]) \subseteq IdsOf(Persisted[1], PluralOf(s))

\* C34: when every catalog item of a category is in the persisted posted
\* list, the next run of post_glossary_item that publishes (no call on the
\* gist failing) leaves the persisted snapshot with the category's cycle
\* count one higher and its posted list holding only the item published.
C34_PublisherPersistsReset ==
    [][\A s \in Singulars :
          (Exhausted(s) /\ PublishedIn(s) /\ ~faulted')
          => /\ Persisted' # <<>>
             /\ CountOf(Persisted'[1], PluralOf(s)) = CountOf(Persisted[1], PluralOf(s)) + 1
             /\ IdsOf(Persisted'[1], PluralOf(s)) = {call'.id}]_vars

\* ------------------------------------------------------------------------
\* Two publishers on one gist (SpecPublishers)
\* ------------------------------------------------------------------------
\* every process has loaded from the gist and its PATCH went through
BothWritten ==
    \A p \in Procs : procs[p].pc = "done" /\ procs[p].get = "ok" /\ procs[p].patch = "ok"

\* C35: when two processes each run mark_as_posted for different ids of
\* one category on the same gist and both PATCHes go through, both ids are
\* in the posted list of the gist afterwards, whatever the order of their
\* loads and writes.
C35_NoLostMark ==
    BothWritten =>
       /\ gist # <<>>
       /\ \A p \in Procs : procs[p].id \in IdsOf(gist[1], "spells")

\* ------------------------------------------------------------------------
\* Two runs of sync_auto on one gist (SpecSyncers)
\* ------------------------------------------------------------------------
\* the GET of _load_gist_state was answered in every run so far
EveryReadAnswered == \A p \in Procs : procs'[p].get # "failed"

\* C36: whatever the order of the steps of the sync_auto runs of processes
\* that share the gist, the gist is monotone: no id leaves its posted list
\* of a category and no cycle count of it decreases; stated for the runs
\* in which every GET was answered.
C36_RemoteMonotone ==
    [][EveryReadAnswered
       => /\ gist' # <<>>
          /\ \A c \in Cats :
                /\ IdsOf(gist[1], c) \subseteq IdsOf(gist'[1], c)
                /\ CountOf(gist'[1], c) >= CountOf(gist[1], c)]_vars

\* ------------------------------------------------------------------------
\* Convergence of sync_auto (SpecStore)
\* ------------------------------------------------------------------------
\* the step is a run of sync_auto that read both snapshots and returned True
AutoSucceeded ==
    /\ IsRun("sync_auto")
    /\ ReadBoth
    /\ DictTruthy(localFile)
    /\ ret' = <<"True">>

\* after the step the two stores compare identical, and a run of sync_auto
\* on them returns True without a backup, a write or a PATCH
Converged ==
    /\ gist' # <<>>
    /\ localFile' # <<>>
    /\ compare_states(gist'[1], localFile'[1]).is_identical
    /\ \A copied \in BOOLEAN, enum \in IterOrders(Ids) :
          sync_auto(FALSE, hasGist, "ok", "ok", "ok", gist', localFile', backupFile',
                    copied, now, enum).res
            = SyncResult(TRUE, gist', localFile', backupFile', hasGist, FALSE)

\* C37 as stated: after a sync_auto that returns True with both sides
\* present, compare_states(gist, local) reports identical and a sync_auto
\* that follows at once returns True without backup or write.
C37_AutoConverges_AnyRun == [][AutoSucceeded => Converged]_vars

\* C37: after a sync_auto without dry_run that returns True with both
\* sides present, compare_states(gist, local) reports identical and a
\* sync_auto that follows at once returns True without taking a backup or
\* writing either side.
C37_AutoConverges == [][(AutoSucceeded /\ ~req'.dry_run) => Converged]_vars

\* a sync_auto without dry_run has merged two snapshots that each held an
\* id the other lacked, and both stores hold the merged one
C37_Witness ==
    /\ req.op = "sync_auto"
    /\ ~req.dry_run
    /\ req.get = "ok"
    /\ req.patch = "ok"
    /\ ret = <<"True">>
    /\ backupFile # <<>>
    /\ gist # <<>>
    /\ localFile = gist
    /\ IdsOf(gist[1], "spells") = Ids
    /\ IdsOf(backupFile[1], "spells") # Ids

\* ------------------------------------------------------------------------
\* Marker timestamps of a merged snapshot (SpecMerge)
\* ------------------------------------------------------------------------
\* every marker of s has a timestamp and none is later than last_updated
MarkersInTime(s) ==
    /\ s.last_updated \in Times
    /\ \A c \in Singulars :
          MarkerOf(s, c) # None
             => (MarkerOf(s, c).timestamp \in Times
                 /\ MarkerOf(s, c).timestamp <= s.last_updated)

\* every timestamp of s was written at microsecond 0, so that the strings
\* compare as the instants do
WholeSeconds(s) ==
    /\ s.last_updated % MicrosPerSec = 0
    /\ \A c \in Singulars :
          MarkerOf(s, c) # None => MarkerOf(s, c).timestamp % MicrosPerSec = 0

\* C38: when in both inputs of merge_states every marker timestamp is not
\* later than the snapshot's last_updated, the same holds in the snapshot
\* that merge_states returns; stated for timestamps of one format.
C38_MergeKeepsMarkersInTime ==
    (/\ merged # <<>>
     /\ MarkersInTime(stateA) /\ WholeSeconds(stateA)
     /\ MarkersInTime(stateB) /\ WholeSeconds(stateB))
       => MarkersInTime(merged[1])

\* ------------------------------------------------------------------------
\* Markers and posted lists on one StateManager (Spec)
\* ------------------------------------------------------------------------
\* the id of every marker of s is in the posted list of its category
MarkersPosted(s) ==
    \A c \in Singulars :
       MarkerOf(s, c) # None => MarkerOf(s, c).id \in IdsOf(s, PluralOf(c))

\* C39: starting from a loaded snapshot that has the id of every marker in
\* the posted list of its category (every snapshot that Init loads has),
\* every snapshot that mark_as_posted saves, after any calls of
\* get_available_items and mark_as_posted on the StateManager, has it too.
C39_MarkerStaysPosted ==
    call.op = "mark_as_posted" => MarkersPosted(state)

\* ------------------------------------------------------------------------
\* Posted ids of the destination of a directional sync (SpecStore)
\* ------------------------------------------------------------------------
\* every posted id of snapshot a is a posted id of snapshot b
KeepsIds(a, b) == \A c \in Cats : IdsOf(a, c) \subseteq IdsOf(b, c)

\* C40: a pull or a push that returns True without force discards no
\* posted id of its destination: after the pull every id of the local
\* posted lists is still there, after the push every id of the posted
\* lists of the gist is still there; stated for the runs whose GET was
\* answered.
C40_UnforcedSyncKeepsIds ==
    [][/\ (/\ IsRun("sync_from_gist")
           /\ ~req'.force
           /\ req'.get = "ok"
           /\ ret' = <<"True">>
           /\ localFile # <<>>)
          => (localFile' # <<>> /\ KeepsIds(localFile[1], localFile'[1]))
       /\ (/\ IsRun("sync_to_gist")
           /\ ~req'.force
           /\ req'.get = "ok"
           /\ ret' = <<"True">>
           /\ gist # <<>>)
          => (gist' # <<>> /\ KeepsIds(gist[1], gist'[1]))]_vars

====
